---- MODULE Spec2Model ----
(***************************************************************************)
(* Model of styled-output's stream capability cache                        *)
(* (src/src/stream_info.rs): the two StreamInfo statics, the shared        *)
(* ENV_NO_COLOR flag, and the caller threads that execute use_color,       *)
(* set_color_mode and line_width.  Every atomic load, atomic store,        *)
(* environment read and terminal probe of the source is one step, so that  *)
(* the interleavings of racing callers are those of the code.  The stores  *)
(* to each atomic are taken in one total order, its modification order.    *)
(* Under memory = "total" every load reads the latest store; under         *)
(* memory = "views" a load reads any store that the loading thread's view  *)
(* still admits, and only an Acquire load of a Release store brings the    *)
(* storing thread's view along (Ordering::Relaxed / Acquire / Release of   *)
(* the source).                                                            *)
(*                                                                         *)
(* The module also holds the style encoder (src/src/style.rs): the colour  *)
(* code tables and Style::set_style, as operators on strings of bytes that *)
(* push into the 15-byte buffer as the source does, and the formatting of  *)
(* a StyledDisplay (src/src/display.rs), one step for each write.          *)
(***************************************************************************)
EXTENDS Integers, Sequences, FiniteSets, TLC

(***************************************************************************)
(* Bounds of the model.                                                    *)
(***************************************************************************)
\* Caller threads of the concurrent specification Spec.
NumThreads == 2
\* Caller threads racing on the first calls in SpecRace.
NumRacers == 3
\* set_color_mode calls in SpecOrder.
MaxOverrides == 1
\* The number of calls of StyledStream::write, over all threads.
MaxWrites == 3

(***************************************************************************)
(* Program constants.                                                      *)
(***************************************************************************)
RAW_LINE_WIDTH_UNKNOWN == -2
RAW_LINE_WIDTH_NONE == -1
DEFAULT_LINE_WIDTH == 80
ENV_NO_COLOR_UNKNOWN == -1
\* Discriminants of enum ColorMode, as stored in raw_color_mode (u8).
Auto == 0
Never == 1
Always == 2
\* Largest value of type u16 (terminal_size::Width, the result of line_width).
U16_MAX == 65535

ColorMode == {Auto, Never, Always}

\* The two statics.
STDOUT_INFO == "stdout"
STDERR_INFO == "stderr"
Streams == {STDOUT_INFO, STDERR_INFO}

(***************************************************************************)
(* Option<T>: None is the empty set, Some(x) the singleton {x}.            *)
(***************************************************************************)
None == {}
Some(x) == {x}

\* Widths a terminal can report (Width(u16)): both ends of u16, the smallest
\* positive width, and a width different from DEFAULT_LINE_WIDTH.
Widths == {0, 1, 132, U16_MAX}
\* Outcomes of TerminalSize::terminal_size, reduced to the width.
ProbeResults == {None} \cup {Some(w) : w \in Widths}
\* Widths used where several threads race (a subset of Widths).
RaceProbeResults == {None, Some(132)}

\* Values of the NO_COLOR environment variable (OsString as a sequence of
\* characters): unset, empty, "0", "1".
NoColorValues == {None, Some(<<>>), Some(<<"0">>), Some(<<"1">>)}
\* Values used where several threads race.
RaceNoColorValues == {None, Some(<<"1">>)}

(***************************************************************************)
(* Conversions.                                                            *)
(***************************************************************************)
\* A cast that goes through i16 and extends the sign.
U16AsI32SignExtended(width) == IF width >= 32768 THEN width - 65536 ELSE width
\* `width as i32` of a u16: zero extension, within i32.
U16AsI32(width) == width % (U16_MAX + 1)
\* `raw_line_width as u16` of an i32: truncation to the low 16 bits.
I32AsU16(x) == x % (U16_MAX + 1)
\* `b as i8` of a bool.
BoolAsI8(b) == IF b THEN 1 ELSE 0

\* A flag that reads the value "0" as a request for colour.
NoColorFlagZeroIsOff(var) ==
  BoolAsI8(\E value \in var : Len(value) # 0 /\ value # <<"0">>)
\* The flag computed from the environment variable:
\* !env::var_os("NO_COLOR").is_none_or(|value| value.is_empty()) as i8
NoColorFlag(var) == BoolAsI8(~(\A value \in var : Len(value) = 0))

\* The raw line width computed from the probe's outcome:
\* if let Some((Width(width), _)) = ... { width as i32 } else { NONE }
RawOfProbe(outcome) == IF outcome = None
                       THEN RAW_LINE_WIDTH_NONE
                       ELSE U16AsI32(CHOOSE width \in outcome : TRUE)

\* A resolution that stores the condition itself, `cond as u8`.
ResolvedModeAsBool(no_color, raw) ==
  BoolAsI8(~no_color /\ raw # RAW_LINE_WIDTH_NONE)
\* The colour mode use_color resolves to from env_no_color() and
\* get_raw_line_width(): `!env_no_color && raw != NONE`.
ResolvedMode(no_color, raw) == IF ~no_color /\ raw # RAW_LINE_WIDTH_NONE
                               THEN Always
                               ELSE Never

\* The result of line_width from the raw line width.
LineWidthOf(raw) == IF raw >= 0 THEN I32AsU16(raw) ELSE DEFAULT_LINE_WIDTH

(***************************************************************************)
(* State.                                                                  *)
(***************************************************************************)
VARIABLES
  \* the program's atomics
  raw_color_mode,       \* [Streams -> u8]   StreamInfo::raw_color_mode
  raw_line_width,       \* [Streams -> i32]  StreamInfo::raw_line_width
  ENV_NO_COLOR,         \* i8                static ENV_NO_COLOR
  \* the memory model of the atomics
  mo,                   \* [Locs -> Seq(store)] modification order of each atomic
  view,                 \* [thread -> [Locs -> index]] the oldest store of each
                        \*   atomic that the thread can still load
  memory,               \* "total" or "views"
  \* the environment
  no_color_var,         \* Option<OsString>  the NO_COLOR environment variable
  terminal,             \* [Streams -> Option<u16>] what the probe would report
  \* each caller thread
  pc,                   \* position in the method it executes
  op,                   \* "none", "use_color" or "line_width"
  self,                 \* the StreamInfo the method was called on
  color_mode,           \* local `color_mode` of use_color
  local_env_no_color,   \* local `env_no_color` of env_no_color()
  local_raw_line_width, \* local `raw_line_width` of get_raw_line_width
  \* history of the calls made so far
  last_set,             \* [Streams -> Option<mode>] last set_color_mode argument
  since_set,            \* no set_color_mode on its stream since the thread's
                        \*   call began
  auto_result,          \* [Streams -> Option<bool>] first automatic resolution
                        \*   cached since the last set_color_mode
  seen_auto,            \* auto_result of the stream when the thread's call began
  displaced,            \* [Streams -> Option<bool>] auto_result at the time of
                        \*   the last set_color_mode
  first_use,            \* [Streams -> Option<bool>] result of the first use_color
                        \*   completed since the last set_color_mode
  first_width,          \* [Streams -> Option<u16>] result of the first line_width
  probe_log,            \* [Streams -> Seq(Option<u16>)] outcomes of the probe's
                        \*   invocations, in order
  raced,                \* [Streams -> BOOLEAN] two calls both loaded UNKNOWN
  env_log,              \* Seq(Option<OsString>) the values of NO_COLOR that
                        \*   env_no_color has read, in order
  env_raced,            \* two calls both loaded ENV_NO_COLOR as unknown
  watch                 \* the parts of the history a specification records

VARIABLES
  \* a StyledDisplay that is being formatted (display.rs)
  style,                \* StyledDisplay::style
  display_value,        \* StyledDisplay::value, a string
  formatter,            \* `f`, the Formatter: its options, and what was written
                        \*   to it
  buffer,               \* local `buffer` of fmt: [MaybeUninit<u8>; 15]
  set_style_str,        \* local `set_style_str` of fmt
  len,                  \* local `len` of set_style when it returned
  stored,               \* the number of bytes set_style has stored
  fmt_pc,               \* position in fmt
  fmt_result,           \* Option<fmt::Result>: what fmt returned
  panicked,             \* set_style has panicked
  failed                \* a write to the Formatter has failed

VARIABLES
  \* a StyledStream made by from_writer, and its callers (stream.rs)
  mutex,                \* LockableWriter::mutex: the thread that holds it, and
                        \*   its poison flag
  writer,               \* the W inside the mutex: the bytes it has taken
  w_pc,                 \* position of each thread in StyledStream::write
  arg_s,                \* argument `s` of each thread's write
  buf_left,             \* `buf` of write_all: the bytes not yet written
  write_result,         \* Option<io::Result<()>>: what write returned
  call,                 \* the number of each thread's call among all calls
  calls,                \* history: the calls of write in the order they began:
                        \*   thread, string, outcome
  origin                \* history: for each byte of the writer, the call that
                        \*   wrote it

atomics == <<raw_color_mode, raw_line_width, ENV_NO_COLOR>>
ordering == <<mo, view, memory>>
environment == <<no_color_var, terminal>>
locals == <<pc, op, self, color_mode, local_env_no_color, local_raw_line_width>>
history == <<last_set, since_set, auto_result, seen_auto, displaced, first_use,
             first_width, probe_log, raced, env_log, env_raced, watch>>
\* The stream capability cache, and the formatting of a StyledDisplay.
cache == <<atomics, ordering, environment, locals, history>>
formatting == <<style, display_value, formatter, buffer, set_style_str, len, stored, fmt_pc,
                fmt_result, failed,
                panicked>>
\* A StyledStream over a writer.
streaming == <<mutex, writer, w_pc, arg_s, buf_left, write_result, call, calls, origin>>
vars == <<cache, formatting, streaming>>

\* The history is kept for the properties a specification checks: a part that is
\* not watched keeps its initial value.  The program never reads the history.
Track(part, old, new) == IF part \in watch THEN new ELSE old

\* The caller threads of the specifications; a thread that a specification
\* does not run stays idle.
Threads == 1 .. NumThreads
Racers == 1 .. NumRacers
AllThreads == Threads \cup Racers

(***************************************************************************)
(* The atomics under their memory orderings.                               *)
(***************************************************************************)
\* The atomics: both fields of both statics, and the static ENV_NO_COLOR.
RawColorModeLoc(s) == <<"raw_color_mode", s>>
RawLineWidthLoc(s) == <<"raw_line_width", s>>
EnvNoColorLoc == <<"ENV_NO_COLOR">>
Locs == {RawColorModeLoc(s) : s \in Streams} \cup
        {RawLineWidthLoc(s) : s \in Streams} \cup {EnvNoColorLoc}

\* The stores of atomic x that thread t can load: under "views" every store
\* from the thread's view on, under "total" the latest one.
Readable(t, x) == IF memory = "views"
                  THEN view[t][x] .. Len(mo[x])
                  ELSE {Len(mo[x])}
\* The value a load of store i of atomic x returns; `latest` is the atomic's
\* latest value.
ValueRead(x, i, latest) == IF memory = "views" THEN mo[x][i].value ELSE latest

\* The later of two views, atomic by atomic.
Join(v, w) == [x \in Locs |-> IF v[x] >= w[x] THEN v[x] ELSE w[x]]

\* x.load(order) by thread t reads store i: the thread's view of x moves to i,
\* and an Acquire load of a Release (or SeqCst) store also takes the view that
\* the storing thread had.
AtomicLoad(t, x, i, order) ==
  /\ view' = IF memory = "views"
             THEN LET own == [view[t] EXCEPT ![x] = i]
                      synchronizes == /\ order = "Acquire"
                                      /\ mo[x][i].order \in {"Release", "SeqCst"}
                  IN [view EXCEPT ![t] = IF synchronizes
                                         THEN Join(own, mo[x][i].before)
                                         ELSE own]
             ELSE view
  /\ UNCHANGED <<mo, memory>>

\* x.store(value, order) by thread t: the store is the last in the
\* modification order of x, and carries the view of the thread.
AtomicStore(t, x, value, order) ==
  /\ mo' = IF memory = "views"
           THEN [mo EXCEPT ![x] = Append(@,
                   [value |-> value, order |-> order, by |-> pc[t],
                    before |-> [view[t] EXCEPT ![x] = Len(mo[x]) + 1]])]
           ELSE mo
  /\ view' = IF memory = "views"
             THEN [view EXCEPT ![t][x] = Len(mo[x]) + 1]
             ELSE view
  /\ memory' = memory

\* The value use_color returns (line 121).
UseColorResult(t) == color_mode[t] = Always
\* The value line_width returns (lines 166-170).
LineWidthResult(t) == LineWidthOf(local_raw_line_width[t])

(***************************************************************************)
(* Initial state: StreamInfo::new for both statics, ENV_NO_COLOR unknown,  *)
(* all threads outside the library.                                        *)
(***************************************************************************)
InitProgram ==
  /\ raw_color_mode = [s \in Streams |-> Auto]
  /\ raw_line_width = [s \in Streams |-> RAW_LINE_WIDTH_UNKNOWN]
  /\ ENV_NO_COLOR = ENV_NO_COLOR_UNKNOWN
  /\ pc = [t \in AllThreads |-> "idle"]
  /\ op = [t \in AllThreads |-> "none"]
  /\ self = [t \in AllThreads |-> STDOUT_INFO]
  /\ color_mode = [t \in AllThreads |-> Auto]
  /\ local_env_no_color = [t \in AllThreads |-> ENV_NO_COLOR_UNKNOWN]
  /\ local_raw_line_width = [t \in AllThreads |-> RAW_LINE_WIDTH_UNKNOWN]
  /\ last_set = [s \in Streams |-> None]
  /\ since_set = [t \in AllThreads |-> FALSE]
  /\ auto_result = [s \in Streams |-> None]
  /\ seen_auto = [t \in AllThreads |-> None]
  /\ displaced = [s \in Streams |-> None]
  /\ first_use = [s \in Streams |-> None]
  /\ first_width = [s \in Streams |-> None]
  /\ probe_log = [s \in Streams |-> <<>>]
  /\ raced = [s \in Streams |-> FALSE]
  /\ env_log = <<>>
  /\ env_raced = FALSE

\* The memory model m at the start: under "views" the modification order of
\* each atomic holds its initial value (StreamInfo::new, line 198), which every
\* thread can load; under "total" the modification orders are not kept.
InitOrdering(m) ==
  /\ memory = m
  /\ mo = IF m = "views"
          THEN [x \in Locs |->
                  <<[value |-> IF x = EnvNoColorLoc THEN ENV_NO_COLOR_UNKNOWN
                               ELSE IF x[1] = "raw_color_mode" THEN Auto
                               ELSE RAW_LINE_WIDTH_UNKNOWN,
                     order |-> "Relaxed", by |-> "new",
                     before |-> [y \in Locs |-> 1]]>>]
          ELSE [x \in Locs |-> <<>>]
  /\ view = IF m = "views"
            THEN [t \in AllThreads |-> [x \in Locs |-> 1]]
            ELSE <<>>

\* The environment at the start: the variable is one of `values`, each stream
\* of S reports one of `outcomes`, the other streams are no terminals.
InitEnvironment(S, values, outcomes) ==
  /\ no_color_var \in values
  /\ terminal \in {f \in [Streams -> outcomes \cup {None}] :
                     \A s \in Streams \ S : f[s] = None}

(***************************************************************************)
(* Continuations shared by the steps below.                                *)
(***************************************************************************)
\* Thread t leaves the library: its locals are dead.
Leave(t) ==
  /\ pc' = [pc EXCEPT ![t] = "idle"]
  /\ op' = [op EXCEPT ![t] = "none"]
  /\ self' = [self EXCEPT ![t] = STDOUT_INFO]
  /\ color_mode' = [color_mode EXCEPT ![t] = Auto]
  /\ local_env_no_color' = [local_env_no_color EXCEPT ![t] = ENV_NO_COLOR_UNKNOWN]
  /\ local_raw_line_width' = [local_raw_line_width EXCEPT ![t] = RAW_LINE_WIDTH_UNKNOWN]
  /\ since_set' = [since_set EXCEPT ![t] = FALSE]
  /\ seen_auto' = [seen_auto EXCEPT ![t] = None]

\* A return after which use_color goes on to the line width whatever the flag
\* is.
EnvNoColorReturnsThenWidth(t, flag) ==
  /\ local_env_no_color' = [local_env_no_color EXCEPT ![t] = ENV_NO_COLOR_UNKNOWN]
  /\ color_mode' = color_mode
  /\ pc' = [pc EXCEPT ![t] = "lw_load"]

\* env_no_color() returns `flag != false as i8` to use_color (line 207), which
\* evaluates `!env_no_color() && self.get_raw_line_width() != NONE` (line 114):
\* the right operand only if the left one is true.
EnvNoColorReturns(t, flag) ==
  /\ local_env_no_color' = [local_env_no_color EXCEPT ![t] = ENV_NO_COLOR_UNKNOWN]
  /\ IF flag # BoolAsI8(FALSE)
     THEN /\ color_mode' = [color_mode EXCEPT ![t] =
                              ResolvedMode(TRUE, RAW_LINE_WIDTH_UNKNOWN)]
          /\ pc' = [pc EXCEPT ![t] = "uc_store"]
     ELSE /\ color_mode' = color_mode
          /\ pc' = [pc EXCEPT ![t] = "lw_load"]

\* get_raw_line_width() returns raw (line 188) to line_width (line 165) or to
\* use_color (line 114).
GetRawLineWidthReturns(t, raw) ==
  /\ local_raw_line_width' = [local_raw_line_width EXCEPT ![t] = raw]
  /\ IF op'[t] = "line_width"
     THEN /\ pc' = [pc EXCEPT ![t] = "lw_return"]
          /\ color_mode' = color_mode
     ELSE /\ pc' = [pc EXCEPT ![t] = "uc_store"]
          /\ color_mode' = [color_mode EXCEPT ![t] = ResolvedMode(FALSE, raw)]

\* A test that takes NONE for unknown too, `raw_line_width < 0`.
MustProbeNegative(raw) == raw < 0
\* A test that is always true.
MustProbeAlways(raw) == raw = raw
\* Whether get_raw_line_width goes on to the probe after its load (line 180).
MustProbe(raw) == raw = RAW_LINE_WIDTH_UNKNOWN

\* A store that is lost.
StoreRawLineWidthDropped(s, raw) == raw_line_width' = raw_line_width
\* A store that caches "no terminal" whatever the probe reported.
StoreRawLineWidthNone(s, raw) ==
  raw_line_width' = [raw_line_width EXCEPT ![s] = RAW_LINE_WIDTH_NONE]
\* A store to one line width that both instances share.
StoreRawLineWidthShared(s, raw) == raw_line_width' = [o \in Streams |-> raw]
\* self.raw_line_width.store(raw_line_width, Relaxed) (line 186).
StoreRawLineWidth(s, raw) == raw_line_width' = [raw_line_width EXCEPT ![s] = raw]

\* A store that leaves a resolved mode alone.
StoreColorModeIfAuto(s, m) ==
  raw_color_mode' = IF raw_color_mode[s] = Auto
                    THEN [raw_color_mode EXCEPT ![s] = m]
                    ELSE raw_color_mode
\* A store that ignores Auto.
StoreColorModeUnlessAuto(s, m) ==
  raw_color_mode' = IF m = Auto
                    THEN raw_color_mode
                    ELSE [raw_color_mode EXCEPT ![s] = m]
\* self.raw_color_mode.store(color_mode as isize as u8, Release) (lines 147-148).
StoreColorMode(s, m) == raw_color_mode' = [raw_color_mode EXCEPT ![s] = m]

\* self.raw_line_width.load(Relaxed) and the test for UNKNOWN (lines 179-180)
\* by thread t on stream s.
LoadRawLineWidth(t, s) ==
  \E i \in Readable(t, RawLineWidthLoc(s)) :
    LET raw == ValueRead(RawLineWidthLoc(s), i, raw_line_width[s]) IN
    /\ AtomicLoad(t, RawLineWidthLoc(s), i, "Relaxed")
    /\ IF MustProbe(raw)
       THEN /\ pc' = [pc EXCEPT ![t] = "lw_probe"]
            /\ local_raw_line_width' = [local_raw_line_width EXCEPT ![t] = raw]
            /\ color_mode' = color_mode
            /\ raced' = [raced EXCEPT ![s] = Track("probe", @,
                           @ \/ \E u \in AllThreads \ {t} :
                                   self[u] = s /\ pc[u] \in {"lw_probe", "lw_store"})]
       ELSE /\ GetRawLineWidthReturns(t, raw)
            /\ raced' = raced

(***************************************************************************)
(* use_color (lines 111-122).                                              *)
(***************************************************************************)
\* A test that resolves again unless the mode is Always.
MustResolveUnlessAlways(mode) == mode # Always
\* Whether use_color takes the lazy path after its load (line 113).
MustResolve(mode) == mode = Auto

\* Lines 112-113: the acquire load of raw_color_mode and the test for Auto.
UseColorLoad(t, s) ==
  /\ pc[t] = "idle"
  /\ op' = [op EXCEPT ![t] = "use_color"]
  /\ self' = [self EXCEPT ![t] = s]
  /\ \E i \in Readable(t, RawColorModeLoc(s)) :
       LET loaded == ValueRead(RawColorModeLoc(s), i, raw_color_mode[s]) IN
       /\ AtomicLoad(t, RawColorModeLoc(s), i, "Acquire")
       /\ color_mode' = [color_mode EXCEPT ![t] = loaded]
       /\ pc' = [pc EXCEPT ![t] = IF MustResolve(loaded)
                                  THEN "env_load"
                                  ELSE "uc_return"]
  /\ since_set' = [since_set EXCEPT ![t] = Track("since", @, TRUE)]
  /\ seen_auto' = [seen_auto EXCEPT ![t] = Track("resolve", @, auto_result[s])]
  /\ UNCHANGED <<atomics, environment, local_env_no_color, local_raw_line_width>>
  /\ UNCHANGED <<last_set, auto_result, displaced, first_use, first_width,
                 probe_log, raced, watch, env_log, env_raced>>
  /\ UNCHANGED <<formatting, streaming>>

\* A test that reads the variable again while the cached flag is false.
MustReadEnvUnlessSet(flag) == flag <= 0
\* Whether env_no_color goes on to read the variable after its load (line 203).
MustReadEnv(flag) == flag = ENV_NO_COLOR_UNKNOWN

\* Lines 202-203: ENV_NO_COLOR.load(Relaxed) and the test for UNKNOWN.
EnvNoColorLoad(t) ==
  /\ pc[t] = "env_load"
  /\ \E i \in Readable(t, EnvNoColorLoc) :
       LET loaded == ValueRead(EnvNoColorLoc, i, ENV_NO_COLOR) IN
       /\ AtomicLoad(t, EnvNoColorLoc, i, "Relaxed")
       /\ IF MustReadEnv(loaded)
          THEN /\ pc' = [pc EXCEPT ![t] = "env_read"]
               /\ local_env_no_color' = [local_env_no_color EXCEPT ![t] = loaded]
               /\ color_mode' = color_mode
               /\ env_raced' = Track("env", env_raced,
                     env_raced \/ \E u \in AllThreads \ {t} :
                                    pc[u] \in {"env_read", "env_store"})
          ELSE /\ EnvNoColorReturns(t, loaded)
               /\ env_raced' = env_raced
  /\ UNCHANGED <<atomics, environment, op, self, local_raw_line_width>>
  /\ UNCHANGED <<last_set, since_set, auto_result, seen_auto, displaced, first_use,
                 first_width, probe_log, raced, env_log, watch>>
  /\ UNCHANGED <<formatting, streaming>>

\* Line 204: the read of the environment variable.
EnvNoColorRead(t) ==
  /\ pc[t] = "env_read"
  /\ local_env_no_color' = [local_env_no_color EXCEPT ![t] = NoColorFlag(no_color_var)]
  /\ pc' = [pc EXCEPT ![t] = "env_store"]
  /\ env_log' = Track("env", env_log, Append(env_log, no_color_var))
  /\ UNCHANGED <<atomics, ordering, environment, op, self, color_mode, local_raw_line_width>>
  /\ UNCHANGED <<last_set, since_set, auto_result, seen_auto, displaced, first_use,
                 first_width, probe_log, raced, env_raced, watch>>
  /\ UNCHANGED <<formatting, streaming>>

\* Lines 205-207: ENV_NO_COLOR.store(Relaxed) and the return.
EnvNoColorStore(t) ==
  /\ pc[t] = "env_store"
  /\ ENV_NO_COLOR' = local_env_no_color[t]
  /\ AtomicStore(t, EnvNoColorLoc, local_env_no_color[t], "Relaxed")
  /\ EnvNoColorReturns(t, local_env_no_color[t])
  /\ UNCHANGED <<raw_color_mode, raw_line_width, environment, op, self,
                 local_raw_line_width, history>>
  /\ UNCHANGED <<formatting, streaming>>

\* Line 114, right operand: get_raw_line_width's load (lines 179-180).
UseColorGetRawLineWidth(t) ==
  /\ pc[t] = "lw_load"
  /\ op' = op
  /\ LoadRawLineWidth(t, self[t])
  /\ UNCHANGED <<atomics, environment, self, local_env_no_color>>
  /\ UNCHANGED <<last_set, since_set, auto_result, seen_auto, displaced, first_use,
                 first_width, probe_log, watch, env_log, env_raced>>
  /\ UNCHANGED <<formatting, streaming>>

\* Line 119: raw_color_mode.store(Relaxed) of the resolved mode.
UseColorStore(t) ==
  /\ pc[t] = "uc_store"
  /\ raw_color_mode' = [raw_color_mode EXCEPT ![self[t]] = color_mode[t]]
  /\ AtomicStore(t, RawColorModeLoc(self[t]), color_mode[t], "Relaxed")
  /\ pc' = [pc EXCEPT ![t] = "uc_return"]
  /\ auto_result' = [auto_result EXCEPT ![self[t]] = Track("resolve", @,
                       IF @ = None THEN Some(UseColorResult(t)) ELSE @)]
  /\ UNCHANGED <<raw_line_width, ENV_NO_COLOR, environment, op, self, color_mode,
                 local_env_no_color, local_raw_line_width>>
  /\ UNCHANGED <<last_set, since_set, seen_auto, displaced, first_use, first_width,
                 probe_log, raced, watch, env_log, env_raced>>
  /\ UNCHANGED <<formatting, streaming>>

\* Line 121: use_color returns.
UseColorReturn(t) ==
  /\ pc[t] = "uc_return"
  /\ first_use' = [first_use EXCEPT ![self[t]] = Track("memo", @,
                     IF @ = None /\ since_set[t] THEN Some(UseColorResult(t)) ELSE @)]
  /\ Leave(t)
  /\ UNCHANGED <<atomics, ordering, environment>>
  /\ UNCHANGED <<last_set, auto_result, displaced, first_width, probe_log, raced,
                 watch, env_log, env_raced>>
  /\ UNCHANGED <<formatting, streaming>>

(***************************************************************************)
(* set_color_mode (lines 146-149): one release store.                      *)
(***************************************************************************)
\* An override that forgets the cached line width of the stream.
SetColorModeResetsWidth(s) ==
  /\ raw_line_width' = [raw_line_width EXCEPT ![s] = RAW_LINE_WIDTH_UNKNOWN]
  /\ ENV_NO_COLOR' = ENV_NO_COLOR
\* What set_color_mode on stream s leaves alone: its body is the one store.
SetColorModeKeeps(s) == UNCHANGED <<raw_line_width, ENV_NO_COLOR>>

SetColorMode(t, s, m) ==
  /\ pc[t] = "idle"
  /\ StoreColorMode(s, m)
  /\ SetColorModeKeeps(s)
  /\ AtomicStore(t, RawColorModeLoc(s), m, "Release")
  /\ last_set' = [last_set EXCEPT ![s] = Track("override", @, Some(m))]
  /\ displaced' = [displaced EXCEPT ![s] = Track("displaced", @, auto_result[s])]
  /\ since_set' = [u \in AllThreads |-> since_set[u] /\ self[u] # s]
  /\ auto_result' = [auto_result EXCEPT ![s] = None]
  /\ first_use' = [first_use EXCEPT ![s] = None]
  /\ UNCHANGED <<environment, locals>>
  /\ UNCHANGED <<seen_auto, first_width, probe_log, raced, watch, env_log, env_raced>>
  /\ UNCHANGED <<formatting, streaming>>

(***************************************************************************)
(* line_width (lines 164-171) and get_raw_line_width (lines 178-189).      *)
(***************************************************************************)
\* Line 165 with lines 179-180: the call and the load of raw_line_width.
LineWidthLoad(t, s) ==
  /\ pc[t] = "idle"
  /\ op' = [op EXCEPT ![t] = "line_width"]
  /\ self' = [self EXCEPT ![t] = s]
  /\ LoadRawLineWidth(t, s)
  /\ UNCHANGED <<atomics, environment, local_env_no_color>>
  /\ UNCHANGED <<last_set, since_set, auto_result, seen_auto, displaced, first_use,
                 first_width, probe_log, watch, env_log, env_raced>>
  /\ UNCHANGED <<formatting, streaming>>

\* Lines 181-185: the terminal probe.
GetRawLineWidthProbe(t) ==
  /\ pc[t] = "lw_probe"
  /\ local_raw_line_width' = [local_raw_line_width EXCEPT ![t] =
                                RawOfProbe(terminal[self[t]])]
  /\ probe_log' = [probe_log EXCEPT ![self[t]] = Track("probe", @,
                     Append(@, terminal[self[t]]))]
  /\ pc' = [pc EXCEPT ![t] = "lw_store"]
  /\ UNCHANGED <<atomics, ordering, environment, op, self, color_mode, local_env_no_color>>
  /\ UNCHANGED <<last_set, since_set, auto_result, seen_auto, displaced, first_use,
                 first_width, raced, watch, env_log, env_raced>>
  /\ UNCHANGED <<formatting, streaming>>

\* Lines 186-188: raw_line_width.store(Relaxed) and the return.
GetRawLineWidthStore(t) ==
  /\ pc[t] = "lw_store"
  /\ StoreRawLineWidth(self[t], local_raw_line_width[t])
  /\ AtomicStore(t, RawLineWidthLoc(self[t]), local_raw_line_width[t], "Relaxed")
  /\ op' = op
  /\ GetRawLineWidthReturns(t, local_raw_line_width[t])
  /\ UNCHANGED <<raw_color_mode, ENV_NO_COLOR, environment, self,
                 local_env_no_color, history>>
  /\ UNCHANGED <<formatting, streaming>>

\* Lines 166-170: line_width returns.
LineWidthReturn(t) ==
  /\ pc[t] = "lw_return"
  /\ first_width' = [first_width EXCEPT ![self[t]] = Track("memo", @,
                       IF @ = None THEN Some(LineWidthResult(t)) ELSE @)]
  /\ Leave(t)
  /\ UNCHANGED <<atomics, ordering, environment>>
  /\ UNCHANGED <<last_set, auto_result, displaced, first_use, probe_log, raced,
                 watch, env_log, env_raced>>
  /\ UNCHANGED <<formatting, streaming>>

(***************************************************************************)
(* The environment: the NO_COLOR variable and the terminal can change at   *)
(* any time; the test harness resets the cached flag.                      *)
(***************************************************************************)
\* env::set_var / env::remove_var of NO_COLOR.
EnvChange(value) ==
  /\ no_color_var # value
  /\ no_color_var' = value
  /\ UNCHANGED <<atomics, ordering, terminal, locals, history>>
  /\ UNCHANGED <<formatting, streaming>>

\* The stream is attached to or detached from a terminal, or the terminal is
\* resized.
TerminalChange(s, outcome) ==
  /\ terminal[s] # outcome
  /\ terminal' = [terminal EXCEPT ![s] = outcome]
  /\ UNCHANGED <<atomics, ordering, no_color_var, locals, history>>
  /\ UNCHANGED <<formatting, streaming>>

\* tests::set_env_no_color (lines 296-314), called between the calls of one
\* thread: ENV_NO_COLOR is reset, then the variable is set or removed.
SetEnvNoColor(t, value) ==
  /\ pc[t] = "idle"
  /\ ENV_NO_COLOR' = ENV_NO_COLOR_UNKNOWN
  /\ AtomicStore(t, EnvNoColorLoc, ENV_NO_COLOR_UNKNOWN, "SeqCst")
  /\ no_color_var' = value
  /\ UNCHANGED <<raw_color_mode, raw_line_width, terminal, locals, history>>
  /\ UNCHANGED <<formatting, streaming>>

(***************************************************************************)
(* Text style (src/src/style.rs).  A string is the sequence of its bytes.  *)
(***************************************************************************)
\* RESET_STYLE: "\x1b[0m".
RESET_STYLE == <<27, 91, 48, 109>>

\* enum Color, in the order of its declaration.
Color == {"Default", "Black", "Red", "Green", "Yellow", "Blue", "Magena", "Cyan",
          "LightGray", "DarkGray", "LightRed", "LightGreen", "LightYellow",
          "LightBlue", "LightMagenta", "LightCyan", "White"}

\* Foreground codes in which Magena has the code of Blue.
foreground_code_shared(this) ==
  CASE this = "Default" -> <<51, 57>>
    [] this = "Black" -> <<51, 48>>
    [] this = "Red" -> <<51, 49>>
    [] this = "Green" -> <<51, 50>>
    [] this = "Yellow" -> <<51, 51>>
    [] this = "Blue" -> <<51, 52>>
    [] this = "Magena" -> <<51, 52>>
    [] this = "Cyan" -> <<51, 54>>
    [] this = "LightGray" -> <<51, 55>>
    [] this = "DarkGray" -> <<57, 48>>
    [] this = "LightRed" -> <<57, 49>>
    [] this = "LightGreen" -> <<57, 50>>
    [] this = "LightYellow" -> <<57, 51>>
    [] this = "LightBlue" -> <<57, 52>>
    [] this = "LightMagenta" -> <<57, 53>>
    [] this = "LightCyan" -> <<57, 54>>
    [] this = "White" -> <<57, 55>>
\* Color::foreground_code: the ANSI code of a foreground colour, a string.
foreground_code(this) ==
  CASE this = "Default" -> <<51, 57>>          \* "39"
    [] this = "Black" -> <<51, 48>>            \* "30"
    [] this = "Red" -> <<51, 49>>              \* "31"
    [] this = "Green" -> <<51, 50>>            \* "32"
    [] this = "Yellow" -> <<51, 51>>           \* "33"
    [] this = "Blue" -> <<51, 52>>             \* "34"
    [] this = "Magena" -> <<51, 53>>           \* "35"
    [] this = "Cyan" -> <<51, 54>>             \* "36"
    [] this = "LightGray" -> <<51, 55>>        \* "37"
    [] this = "DarkGray" -> <<57, 48>>         \* "90"
    [] this = "LightRed" -> <<57, 49>>         \* "91"
    [] this = "LightGreen" -> <<57, 50>>       \* "92"
    [] this = "LightYellow" -> <<57, 51>>      \* "93"
    [] this = "LightBlue" -> <<57, 52>>        \* "94"
    [] this = "LightMagenta" -> <<57, 53>>     \* "95"
    [] this = "LightCyan" -> <<57, 54>>        \* "96"
    [] this = "White" -> <<57, 55>>            \* "97"

\* Background codes in which a bright colour has the code of its normal
\* colour.
background_code_no_bright(this) ==
  CASE this = "Default" -> <<52, 57>>
    [] this = "Black" -> <<52, 48>>
    [] this = "Red" -> <<52, 49>>
    [] this = "Green" -> <<52, 50>>
    [] this = "Yellow" -> <<52, 51>>
    [] this = "Blue" -> <<52, 52>>
    [] this = "Magena" -> <<52, 53>>
    [] this = "Cyan" -> <<52, 54>>
    [] this = "LightGray" -> <<52, 55>>
    [] this = "DarkGray" -> <<52, 48>>
    [] this = "LightRed" -> <<52, 49>>
    [] this = "LightGreen" -> <<52, 50>>
    [] this = "LightYellow" -> <<52, 51>>
    [] this = "LightBlue" -> <<52, 52>>
    [] this = "LightMagenta" -> <<52, 53>>
    [] this = "LightCyan" -> <<52, 54>>
    [] this = "White" -> <<52, 55>>
\* A background colour that is encoded with the code of the foreground colour.
background_code_as_foreground(this) == foreground_code(this)
\* Color::background_code: the ANSI code of a background colour, a string.
background_code(this) ==
  CASE this = "Default" -> <<52, 57>>          \* "49"
    [] this = "Black" -> <<52, 48>>            \* "40"
    [] this = "Red" -> <<52, 49>>              \* "41"
    [] this = "Green" -> <<52, 50>>            \* "42"
    [] this = "Yellow" -> <<52, 51>>           \* "43"
    [] this = "Blue" -> <<52, 52>>             \* "44"
    [] this = "Magena" -> <<52, 53>>           \* "45"
    [] this = "Cyan" -> <<52, 54>>             \* "46"
    [] this = "LightGray" -> <<52, 55>>        \* "47"
    [] this = "DarkGray" -> <<49, 48, 48>>     \* "100"
    [] this = "LightRed" -> <<49, 48, 49>>     \* "101"
    [] this = "LightGreen" -> <<49, 48, 50>>   \* "102"
    [] this = "LightYellow" -> <<49, 48, 51>>  \* "103"
    [] this = "LightBlue" -> <<49, 48, 52>>    \* "104"
    [] this = "LightMagenta" -> <<49, 48, 53>> \* "105"
    [] this = "LightCyan" -> <<49, 48, 54>>    \* "106"
    [] this = "White" -> <<49, 48, 55>>        \* "107"

\* struct Style, and Style::default() (derived: every field its default).
Style == [foreground_color : Color, background_color : Color,
          bold : BOOLEAN, underlined : BOOLEAN, blinking : BOOLEAN]
StyleDefault == [foreground_color |-> "Default", background_color |-> "Default",
                 bold |-> FALSE, underlined |-> FALSE, blinking |-> FALSE]

\* MaybeUninit::uninit(): a byte of the buffer that was never written.
Uninit == -1
\* A buffer of 14 bytes.
new_set_style_buffer_short == [i \in 1 .. 14 |-> Uninit]
\* Style::new_set_style_buffer: [MaybeUninit<u8>; 15].
new_set_style_buffer == [i \in 1 .. 15 |-> Uninit]

\* u8::is_ascii.
is_ascii(ch) == ch <= 127

\* The pushes of set_style work on its state e: the caller's buffer, the local
\* `len`, the number of bytes stored so far, and whether an index or an
\* assertion has panicked.
\* push_ascii: buffer[*len].write(ch); *len += 1, after assert!(ch.is_ascii()).
\* Index *len (from 0) is the element *len + 1 here.
push_ascii(e, ch) ==
  IF e.panic \/ ~is_ascii(ch) \/ e.len >= Len(e.buffer)
  THEN [e EXCEPT !.panic = TRUE]
  ELSE [e EXCEPT !.buffer = [e.buffer EXCEPT ![e.len + 1] = ch],
                 !.len = e.len + 1,
                 !.stored = e.stored + 1]

\* push_str: buffer[*len..*len + string_len].copy_from_slice(src);
\* *len += string_len.
push_str(e, string) ==
  IF e.panic \/ e.len + Len(string) > Len(e.buffer)
  THEN [e EXCEPT !.panic = TRUE]
  ELSE [e EXCEPT !.buffer = [i \in DOMAIN e.buffer |->
                               IF i > e.len /\ i <= e.len + Len(string)
                               THEN string[i - e.len]
                               ELSE e.buffer[i]],
                 !.len = e.len + Len(string),
                 !.stored = e.stored + Len(string)]

\* A prefix that is a semicolon also at the start.
push_prefix_semicolon(e) == push_ascii(e, 59)
\* A prefix that is the introducer every time.
push_prefix_introducer(e) == push_str(e, <<27, 91>>)
\* A prefix that takes the buffer for empty if its first byte was never
\* written.
push_prefix_by_content(e) == IF Head(e.buffer) = Uninit
                             THEN push_str(e, <<27, 91>>)
                             ELSE push_ascii(e, 59)
\* push_prefix: "\x1b[" if the buffer is empty, b';' otherwise.
push_prefix(e) == IF e.len = 0
                  THEN push_str(e, <<27, 91>>)
                  ELSE push_ascii(e, 59)

\* A test that is always true.
MustCloseAlways(n) == n = n
\* Whether set_style appends b'm' (line 209): `len != 0`.
MustClose(n) == n # 0

\* An encoding that emits the attributes before the colours.
set_style_attributes_first(this, buf) ==
  LET e0 == [buffer |-> buf, len |-> 0, stored |-> 0, panic |-> FALSE]
      e1 == IF this.bold THEN push_ascii(push_prefix(e0), 49) ELSE e0
      e2 == IF this.underlined THEN push_ascii(push_prefix(e1), 52) ELSE e1
      e3 == IF this.blinking THEN push_ascii(push_prefix(e2), 53) ELSE e2
      e4 == IF this.foreground_color # "Default"
            THEN push_str(push_prefix(e3), foreground_code(this.foreground_color))
            ELSE e3
      e5 == IF this.background_color # "Default"
            THEN push_str(push_prefix(e4), background_code(this.background_color))
            ELSE e4
  IN IF MustClose(e5.len) THEN push_ascii(e5, 109) ELSE e5
\* Style::set_style (lines 182-211): the state when the pushes are done.
set_style(this, buf) ==
  LET e0 == [buffer |-> buf, len |-> 0, stored |-> 0, panic |-> FALSE]
      e1 == IF this.foreground_color # "Default"
            THEN push_str(push_prefix(e0), foreground_code(this.foreground_color))
            ELSE e0
      e2 == IF this.background_color # "Default"
            THEN push_str(push_prefix(e1), background_code(this.background_color))
            ELSE e1
      e3 == IF this.bold THEN push_ascii(push_prefix(e2), 49) ELSE e2        \* b'1'
      e4 == IF this.underlined THEN push_ascii(push_prefix(e3), 52) ELSE e3  \* b'4'
      e5 == IF this.blinking THEN push_ascii(push_prefix(e4), 53) ELSE e4    \* b'5'
  IN IF MustClose(e5.len) THEN push_ascii(e5, 109) ELSE e5                   \* b'm'

\* The string set_style returns (lines 215-218): the first `len` bytes of the
\* buffer.
ReturnedStr(e) == SubSeq(e.buffer, 1, e.len)

(***************************************************************************)
(* A call of set_style on a new buffer, and StyledDisplay::fmt             *)
(* (src/src/display.rs, lines 28-40).                                      *)
(***************************************************************************)
\* Values that are displayed: the strings "" and "foo", and the integer 17.
StrValue(text) == [kind |-> "str", text |-> text, number |-> 0]
IntValue(number) == [kind |-> "int", text |-> <<>>, number |-> number]
DisplayValues == {StrValue(<<>>), StrValue(<<102, 111, 111>>), IntValue(17)}

\* Options of the Formatter, from the caller's format specification: "{}",
\* "{:_>5}", "{:.2}" and "{:+}".
DefaultFormat == [fill |-> 32, align |-> "none", width |-> 0, precision |-> None,
                  sign_plus |-> FALSE]
FormatSpecs ==
  {DefaultFormat,
   [DefaultFormat EXCEPT !.fill = 95, !.align = ">", !.width = 5],
   [DefaultFormat EXCEPT !.precision = Some(2)],
   [DefaultFormat EXCEPT !.sign_plus = TRUE]}

\* n copies of the byte ch.
Repeat(ch, n) == [i \in 1 .. n |-> ch]

\* The decimal digits of a number, as a string.
RECURSIVE Decimal(_)
Decimal(n) == IF n < 10 THEN <<48 + n>> ELSE Decimal(n \div 10) \o <<48 + (n % 10)>>

\* Display::fmt of the value under the Formatter's options.  A str is cut to
\* the precision; an integer gets its sign.  Either is then filled up to the
\* width, on the side the alignment leaves free: a str is on the left and an
\* integer on the right unless the specification says otherwise.
FormattedValue(val, options) ==
  LET text == IF val.kind = "int"
              THEN (IF options.sign_plus THEN <<43>> ELSE <<>>) \o Decimal(val.number)
              ELSE IF options.precision = None
              THEN val.text
              ELSE LET p == CHOOSE n \in options.precision : TRUE
                   IN IF Len(val.text) > p THEN SubSeq(val.text, 1, p) ELSE val.text
      fill == Repeat(options.fill,
                     IF options.width > Len(text) THEN options.width - Len(text) ELSE 0)
      right == options.align = ">" \/ (options.align = "none" /\ val.kind = "int")
  IN IF right THEN fill \o text ELSE text \o fill

\* No StyledDisplay is being formatted.
InitFormatting ==
  /\ style = StyleDefault
  /\ display_value = StrValue(<<>>)
  /\ formatter = [options |-> DefaultFormat, out |-> <<>>]
  /\ buffer = new_set_style_buffer
  /\ set_style_str = <<>>
  /\ len = 0
  /\ stored = 0
  /\ fmt_pc = "none"
  /\ fmt_result = None
  /\ panicked = FALSE
  /\ failed = FALSE

\* `let set_style_str = self.style.set_style(&mut buffer)` (line 31; style.rs
\* lines 229-230): the buffer is written and the string is returned, unless
\* set_style panics.
CallSetStyle ==
  LET e == set_style(style, buffer) IN
  /\ buffer' = e.buffer
  /\ len' = e.len
  /\ stored' = e.stored
  /\ panicked' = e.panic
  /\ set_style_str' = IF e.panic THEN <<>> ELSE ReturnedStr(e)

\* A call of set_style on the caller's buffer.
SetStyle ==
  /\ fmt_pc = "set_style"
  /\ CallSetStyle
  /\ fmt_pc' = "returned"
  /\ UNCHANGED <<style, display_value, formatter, fmt_result, failed>>
  /\ UNCHANGED <<cache, streaming>>

\* Styles with which a buffer is used again: no colours, or Red on White (a
\* code of two and one of three digits), with every combination of
\* attributes.  Their encodings have 0, 4, 6, 8, 9, 11, 13 and 15 bytes.
ReuseStyles ==
  [foreground_color : {"Default"}, background_color : {"Default"},
   bold : BOOLEAN, underlined : BOOLEAN, blinking : BOOLEAN] \cup
  [foreground_color : {"Red"}, background_color : {"White"},
   bold : BOOLEAN, underlined : BOOLEAN, blinking : BOOLEAN]

\* The caller passes the buffer of the call that has returned to another call
\* of set_style, with any style (`buffer: &mut [MaybeUninit<u8>; 15]`, line
\* 145): the bytes of the earlier encoding are still in it.
SetStyleAgain(st) ==
  /\ fmt_pc = "returned"
  /\ ~panicked
  /\ style' = st
  /\ set_style_str' = <<>>
  /\ len' = 0
  /\ stored' = 0
  /\ fmt_pc' = "set_style"
  /\ UNCHANGED <<display_value, formatter, buffer, fmt_result, panicked, failed>>
  /\ UNCHANGED <<cache, streaming>>

\* A write that applies the Formatter's options to the string.
write_str_padded(fm, str) ==
  [fm EXCEPT !.out = @ \o FormattedValue(StrValue(str), fm.options)]
\* f.write_str(str) when it succeeds: the string is written as it is.
write_str(fm, str) == [fm EXCEPT !.out = @ \o str]

\* A write of str that fails: a part of the string, not all of it, may have
\* been written before the error.
FailedWrite(fm, str) ==
  {write_str(fm, SubSeq(str, 1, k)) :
     k \in 0 .. (IF Len(str) = 0 THEN 0 ELSE Len(str) - 1)}

\* A write of str to the Formatter, which succeeds (ok) or fails.
Write(str, ok) ==
  /\ formatter' \in (IF ok THEN {write_str(formatter, str)}
                            ELSE FailedWrite(formatter, str))
  /\ failed' = (failed \/ ~ok)

\* Lines 30-32: the buffer, the call of set_style, and the test of its result.
FmtSetStyle ==
  /\ fmt_pc = "fmt"
  /\ CallSetStyle
  /\ fmt_pc' = IF panicked' THEN "panicked"
               ELSE IF Len(set_style_str') = 0 THEN "plain"
               ELSE "write_set_style"
  /\ UNCHANGED <<style, display_value, formatter, fmt_result, failed>>
  /\ UNCHANGED <<cache, streaming>>

\* Line 33: the default style: the value is formatted, and its result is the
\* result of fmt.
FmtPlain(ok) ==
  /\ fmt_pc = "plain"
  /\ Write(FormattedValue(display_value, formatter.options), ok)
  /\ fmt_result' = Some(IF ok THEN "Ok" ELSE "Err")
  /\ fmt_pc' = "done"
  /\ UNCHANGED <<style, display_value, buffer, set_style_str, len, stored, panicked>>
  /\ UNCHANGED <<cache, streaming>>

\* A `?` that drops the error and goes on.
TryIgnored(ok, next) == next
\* The `?` of lines 35 and 37: where fmt goes on after a write, which is to its
\* end if the write has failed.
Try(ok, next) == IF ok THEN next ELSE "done"

\* Line 35: f.write_str(set_style_str)?
FmtWriteSetStyle(ok) ==
  /\ fmt_pc = "write_set_style"
  /\ Write(set_style_str, ok)
  /\ fmt_result' = IF ok THEN fmt_result ELSE Some("Err")
  /\ fmt_pc' = Try(ok, "value")
  /\ UNCHANGED <<style, display_value, buffer, set_style_str, len, stored, panicked>>
  /\ UNCHANGED <<cache, streaming>>

\* Line 37: Display::fmt(&self.value, f)?
FmtValue(ok) ==
  /\ fmt_pc = "value"
  /\ Write(FormattedValue(display_value, formatter.options), ok)
  /\ fmt_result' = IF ok THEN fmt_result ELSE Some("Err")
  /\ fmt_pc' = Try(ok, "reset")
  /\ UNCHANGED <<style, display_value, buffer, set_style_str, len, stored, panicked>>
  /\ UNCHANGED <<cache, streaming>>

\* Line 38: f.write_str(RESET_STYLE), whose result is the result of fmt.
FmtWriteReset(ok) ==
  /\ fmt_pc = "reset"
  /\ Write(RESET_STYLE, ok)
  /\ fmt_result' = Some(IF ok THEN "Ok" ELSE "Err")
  /\ fmt_pc' = "done"
  /\ UNCHANGED <<style, display_value, buffer, set_style_str, len, stored, panicked>>
  /\ UNCHANGED <<cache, streaming>>

(***************************************************************************)
(* Specifications.                                                         *)
(***************************************************************************)
\* A step of thread t in a use_color call on a stream of S, or in the probe
\* and the store of get_raw_line_width.
UseColorStep(t, S) ==
  \/ \E s \in S : UseColorLoad(t, s)
  \/ EnvNoColorLoad(t)
  \/ EnvNoColorRead(t)
  \/ EnvNoColorStore(t)
  \/ UseColorGetRawLineWidth(t)
  \/ UseColorStore(t)
  \/ UseColorReturn(t)
  \/ GetRawLineWidthProbe(t)
  \/ GetRawLineWidthStore(t)

\* A step of thread t, whose calls are on the streams of S.
ThreadStep(t, S) ==
  \/ UseColorStep(t, S)
  \/ \E s \in S : LineWidthLoad(t, s)
  \/ LineWidthReturn(t)

(***************************************************************************)
(* StyledStream over a writer (stream.rs)                                  *)
(***************************************************************************)
\* The strings that are written: "ab" and "c".
WriteStrings == {<<97, 98>>, <<99>>}

\* The positions of write at which a thread holds the guard of the mutex.
Holding == {"clear_poison", "write_all", "drop", "unwind"}

\* from_writer (lines 39-47): the mutex is new, neither held nor poisoned, the
\* writer has taken nothing, and no thread is in write.
InitStream ==
  /\ mutex = [holder |-> None, poison |-> FALSE]
  /\ writer = <<>>
  /\ w_pc = [t \in Threads |-> "idle"]
  /\ arg_s = [t \in Threads |-> <<>>]
  /\ buf_left = [t \in Threads |-> <<>>]
  /\ write_result = [t \in Threads |-> None]
  /\ call = [t \in Threads |-> 0]
  /\ calls = <<>>
  /\ origin = <<>>

\* A mutex that any thread can take at any time.
NeverLocked(m) == FALSE
\* Mutex::lock blocks while a thread holds the mutex (line 113).
Locked(m) == m.holder # None

\* Thread t calls write(str) (line 15).
StyledStreamWrite(t, str) ==
  /\ w_pc[t] = "idle"
  /\ Len(calls) < MaxWrites
  /\ w_pc' = [w_pc EXCEPT ![t] = "lock"]
  /\ arg_s' = [arg_s EXCEPT ![t] = str]
  /\ write_result' = [write_result EXCEPT ![t] = None]
  /\ call' = [call EXCEPT ![t] = Len(calls) + 1]
  /\ calls' = Append(calls, [thread |-> t, s |-> str, result |-> None])
  /\ UNCHANGED <<mutex, writer, buf_left, origin>>
  /\ UNCHANGED <<cache, formatting>>

\* self.mutex.lock() (line 113): the thread takes the mutex when no thread
\* holds it, and gets the guard, as Ok(guard), or inside the PoisonError if the
\* mutex is poisoned: then the closure of unwrap_or_else runs.  The guard goes
\* to write_all with s.as_bytes() (line 16).
LockableWriterLock(t) ==
  /\ w_pc[t] = "lock"
  /\ ~Locked(mutex)
  /\ mutex' = [mutex EXCEPT !.holder = Some(t)]
  /\ w_pc' = [w_pc EXCEPT ![t] = IF mutex.poison THEN "clear_poison" ELSE "write_all"]
  /\ buf_left' = [buf_left EXCEPT ![t] = arg_s[t]]
  /\ UNCHANGED <<writer, arg_s, write_result, call, calls, origin>>
  /\ UNCHANGED <<cache, formatting>>

\* The closure of unwrap_or_else (lines 113-116): self.mutex.clear_poison(),
\* and e.into_inner() is the guard.
ClearPoison(t) ==
  /\ w_pc[t] = "clear_poison"
  /\ mutex' = [mutex EXCEPT !.poison = FALSE]
  /\ w_pc' = [w_pc EXCEPT ![t] = "write_all"]
  /\ UNCHANGED <<writer, arg_s, buf_left, write_result, call, calls, origin>>
  /\ UNCHANGED <<cache, formatting>>

\* write_all (lines 16, 64-66), one write of the writer: it takes the first n
\* bytes of what is left.
WriterWrite(t, n) ==
  /\ w_pc[t] = "write_all"
  /\ n \in 1 .. Len(buf_left[t])
  /\ writer' = writer \o SubSeq(buf_left[t], 1, n)
  /\ origin' = origin \o [i \in 1 .. n |-> call[t]]
  /\ buf_left' = [buf_left EXCEPT ![t] = SubSeq(@, n + 1, Len(@))]
  /\ UNCHANGED <<mutex, w_pc, arg_s, write_result, call, calls>>
  /\ UNCHANGED <<cache, formatting>>

\* write_all returns: Ok(()) when nothing is left, or the error of a write of
\* the writer when bytes are left.
WriteAllReturn(t, ok) ==
  /\ w_pc[t] = "write_all"
  /\ ok <=> buf_left[t] = <<>>
  /\ write_result' = [write_result EXCEPT ![t] = Some(IF ok THEN "Ok" ELSE "Err")]
  /\ calls' = [calls EXCEPT ![call[t]].result = Some(IF ok THEN "Ok" ELSE "Err")]
  /\ w_pc' = [w_pc EXCEPT ![t] = "drop"]
  /\ UNCHANGED <<mutex, writer, arg_s, buf_left, call, origin>>
  /\ UNCHANGED <<cache, formatting>>

\* A write of the writer panics: the thread unwinds out of write.
WriterPanic(t) ==
  /\ w_pc[t] = "write_all"
  /\ buf_left[t] # <<>>
  /\ calls' = [calls EXCEPT ![call[t]].result = Some("Panic")]
  /\ w_pc' = [w_pc EXCEPT ![t] = "unwind"]
  /\ UNCHANGED <<mutex, writer, arg_s, buf_left, write_result, call, origin>>
  /\ UNCHANGED <<cache, formatting>>

\* The guard, a temporary of line 16, is dropped when write returns or
\* unwinds: the mutex is released, and is poisoned if the thread is
\* panicking.  A thread that has panicked calls no more.
DropGuard(t) ==
  /\ w_pc[t] \in {"drop", "unwind"}
  /\ mutex' = [holder |-> None, poison |-> mutex.poison \/ w_pc[t] = "unwind"]
  /\ w_pc' = [w_pc EXCEPT ![t] = IF w_pc[t] = "unwind" THEN "panicked" ELSE "idle"]
  /\ UNCHANGED <<writer, arg_s, buf_left, write_result, call, calls, origin>>
  /\ UNCHANGED <<cache, formatting>>

\* A step of thread t in StyledStream::write.
StreamStep(t) ==
  \/ \E str \in WriteStrings : StyledStreamWrite(t, str)
  \/ LockableWriterLock(t)
  \/ ClearPoison(t)
  \/ \E n \in 1 .. 2 : WriterWrite(t, n)
  \/ \E ok \in BOOLEAN : WriteAllReturn(t, ok)
  \/ WriterPanic(t)
  \/ DropGuard(t)

\* Spec: NumThreads threads race on STDOUT_INFO, with overrides, while the
\* terminal and the variable change.
Init ==
  /\ InitProgram
  /\ InitEnvironment({STDOUT_INFO}, RaceNoColorValues, RaceProbeResults)
  /\ watch = {"override", "since", "resolve"}
  /\ InitOrdering("total")
  /\ InitFormatting
  /\ InitStream

Next ==
  \/ \E t \in Threads : ThreadStep(t, {STDOUT_INFO})
  \/ \E t \in Threads, m \in ColorMode : SetColorMode(t, STDOUT_INFO, m)
  \/ \E value \in RaceNoColorValues : EnvChange(value)
  \/ \E outcome \in RaceProbeResults : TerminalChange(STDOUT_INFO, outcome)

Spec == Init /\ [][Next]_vars

\* SpecSeq: one thread calls on STDOUT_INFO while the environment changes and
\* the harness resets the cached flag.
InitSeq ==
  /\ InitProgram
  /\ InitEnvironment({STDOUT_INFO}, NoColorValues, ProbeResults)
  /\ watch = {"override", "displaced", "since", "resolve", "memo", "probe"}
  /\ InitOrdering("total")
  /\ InitFormatting
  /\ InitStream

NextSeq ==
  \/ ThreadStep(1, {STDOUT_INFO})
  \/ \E m \in ColorMode : SetColorMode(1, STDOUT_INFO, m)
  \/ \E value \in NoColorValues : EnvChange(value)
  \/ \E outcome \in ProbeResults : TerminalChange(STDOUT_INFO, outcome)
  \/ \E value \in NoColorValues : SetEnvNoColor(1, value)

SpecSeq == InitSeq /\ [][NextSeq]_vars

\* SpecFixed: one thread calls on both streams in a fixed environment.
InitFixed ==
  /\ InitProgram
  /\ InitEnvironment(Streams, NoColorValues, ProbeResults)
  /\ watch = {"override", "since", "memo"}
  /\ InitOrdering("total")
  /\ InitFormatting
  /\ InitStream

NextFixed ==
  \/ ThreadStep(1, Streams)
  \/ \E s \in Streams, m \in ColorMode : SetColorMode(1, s, m)

SpecFixed == InitFixed /\ [][NextFixed]_vars

\* SpecProbe: NumThreads threads race on STDOUT_INFO, with overrides, while
\* the terminal changes; the probe's invocations are recorded.
InitProbe ==
  /\ InitProgram
  /\ InitEnvironment({STDOUT_INFO}, RaceNoColorValues, RaceProbeResults)
  /\ watch = {"probe"}
  /\ InitOrdering("total")
  /\ InitFormatting
  /\ InitStream

NextProbe ==
  \/ \E t \in Threads : ThreadStep(t, {STDOUT_INFO})
  \/ \E t \in Threads, m \in ColorMode : SetColorMode(t, STDOUT_INFO, m)
  \/ \E outcome \in RaceProbeResults : TerminalChange(STDOUT_INFO, outcome)

SpecProbe == InitProbe /\ [][NextProbe]_vars

\* SpecRace: NumRacers threads race on the first calls of STDOUT_INFO, without
\* overrides, in a fixed environment.
InitRace ==
  /\ InitProgram
  /\ InitEnvironment({STDOUT_INFO}, RaceNoColorValues, RaceProbeResults)
  /\ watch = {"probe"}
  /\ InitOrdering("total")
  /\ InitFormatting
  /\ InitStream

NextRace ==
  \/ \E t \in Racers : ThreadStep(t, {STDOUT_INFO})

SpecRace == InitRace /\ [][NextRace]_vars

\* SpecOrder: NumThreads threads call on STDOUT_INFO in a fixed environment,
\* with at most MaxOverrides overrides; the loads read by the threads' views.
InitOrder ==
  /\ InitProgram
  /\ InitEnvironment({STDOUT_INFO}, RaceNoColorValues, RaceProbeResults)
  /\ watch = {}
  /\ InitOrdering("views")
  /\ InitFormatting
  /\ InitStream

\* The set_color_mode calls made on stream s so far: its Release stores.
Overrides(s) ==
  {i \in 1 .. Len(mo[RawColorModeLoc(s)]) :
     mo[RawColorModeLoc(s)][i].order = "Release"}

NextOrder ==
  \/ \E t \in Threads : ThreadStep(t, {STDOUT_INFO})
  \/ \E t \in Threads, m \in ColorMode :
       /\ Cardinality(Overrides(STDOUT_INFO)) < MaxOverrides
       /\ SetColorMode(t, STDOUT_INFO, m)

SpecOrder == InitOrder /\ [][NextOrder]_vars

\* The stream capability cache is not used: no thread calls into it.
InitCacheUnused ==
  /\ InitProgram
  /\ InitOrdering("total")
  /\ InitEnvironment({}, {None}, {None})
  /\ watch = {}

\* SpecStyle: set_style is called once, with any style, on a new buffer.
InitStyle ==
  /\ InitCacheUnused
  /\ InitStream
  /\ style \in Style
  /\ display_value = StrValue(<<>>)
  /\ formatter = [options |-> DefaultFormat, out |-> <<>>]
  /\ buffer = new_set_style_buffer
  /\ set_style_str = <<>>
  /\ len = 0
  /\ stored = 0
  /\ fmt_pc = "set_style"
  /\ fmt_result = None
  /\ panicked = FALSE
  /\ failed = FALSE

NextStyle == SetStyle

SpecStyle == InitStyle /\ [][NextStyle]_vars

\* SpecDisplay: a StyledDisplay of any style, with a value and a format
\* specification, is formatted once; each write succeeds or fails.
InitDisplay ==
  /\ InitCacheUnused
  /\ InitStream
  /\ style \in Style
  /\ display_value \in DisplayValues
  /\ formatter \in [options : FormatSpecs, out : {<<>>}]
  /\ buffer = new_set_style_buffer
  /\ set_style_str = <<>>
  /\ len = 0
  /\ stored = 0
  /\ fmt_pc = "fmt"
  /\ fmt_result = None
  /\ panicked = FALSE
  /\ failed = FALSE

NextDisplay ==
  \/ FmtSetStyle
  \/ \E ok \in BOOLEAN : FmtPlain(ok)
  \/ \E ok \in BOOLEAN : FmtWriteSetStyle(ok)
  \/ \E ok \in BOOLEAN : FmtValue(ok)
  \/ \E ok \in BOOLEAN : FmtWriteReset(ok)

SpecDisplay == InitDisplay /\ [][NextDisplay]_vars

\* SpecEnv: NumThreads threads call use_color on both streams, both terminals,
\* without overrides, while the variable changes; the reads of the variable
\* are recorded.
InitEnv ==
  /\ InitProgram
  /\ InitEnvironment(Streams, RaceNoColorValues, {Some(132)})
  /\ terminal[STDOUT_INFO] # None /\ terminal[STDERR_INFO] # None
  /\ watch = {"env"}
  /\ InitOrdering("total")
  /\ InitFormatting
  /\ InitStream

NextEnv ==
  \/ \E t \in Threads : UseColorStep(t, Streams)
  \/ \E value \in RaceNoColorValues : EnvChange(value)

SpecEnv == InitEnv /\ [][NextEnv]_vars

\* SpecAgree: NumRacers threads call on STDOUT_INFO, without overrides, in a
\* fixed environment; the first results are recorded.
InitAgree ==
  /\ InitProgram
  /\ InitEnvironment({STDOUT_INFO}, RaceNoColorValues, RaceProbeResults)
  /\ watch = {"since", "memo"}
  /\ InitOrdering("total")
  /\ InitFormatting
  /\ InitStream

NextAgree ==
  \/ \E t \in Racers : ThreadStep(t, {STDOUT_INFO})

SpecAgree == InitAgree /\ [][NextAgree]_vars

\* SpecRearm: one thread calls on STDOUT_INFO, with overrides, while the
\* environment changes; the harness does not reset the cached flag.  The reads
\* of the variable and the probe's invocations are recorded.
InitRearm ==
  /\ InitProgram
  /\ InitEnvironment({STDOUT_INFO}, NoColorValues, ProbeResults)
  /\ watch = {"override", "displaced", "since", "resolve", "memo", "probe", "env"}
  /\ InitOrdering("total")
  /\ InitFormatting
  /\ InitStream

NextRearm ==
  \/ ThreadStep(1, {STDOUT_INFO})
  \/ \E m \in ColorMode : SetColorMode(1, STDOUT_INFO, m)
  \/ \E value \in NoColorValues : EnvChange(value)
  \/ \E outcome \in ProbeResults : TerminalChange(STDOUT_INFO, outcome)

SpecRearm == InitRearm /\ [][NextRearm]_vars

\* SpecIndep: one thread calls on STDOUT_INFO in a fixed environment, without
\* overrides; the first results and the probe's invocations are recorded.
InitIndep ==
  /\ InitProgram
  /\ InitEnvironment({STDOUT_INFO}, NoColorValues, ProbeResults)
  /\ watch = {"since", "memo", "probe"}
  /\ InitOrdering("total")
  /\ InitFormatting
  /\ InitStream

NextIndep == ThreadStep(1, {STDOUT_INFO})

SpecIndep == InitIndep /\ [][NextIndep]_vars

\* SpecAuto: NumThreads threads call on STDOUT_INFO, without overrides and
\* without a reset, while the terminal and the variable change.
InitAuto ==
  /\ InitProgram
  /\ InitEnvironment({STDOUT_INFO}, RaceNoColorValues, RaceProbeResults)
  /\ watch = {}
  /\ InitOrdering("total")
  /\ InitFormatting
  /\ InitStream

NextAuto ==
  \/ \E t \in Threads : ThreadStep(t, {STDOUT_INFO})
  \/ \E value \in RaceNoColorValues : EnvChange(value)
  \/ \E outcome \in RaceProbeResults : TerminalChange(STDOUT_INFO, outcome)

SpecAuto == InitAuto /\ [][NextAuto]_vars

\* SpecReuse: set_style is called again and again on one buffer, which is new
\* at the first call, with the styles of ReuseStyles in any order.
InitReuse ==
  /\ InitCacheUnused
  /\ InitStream
  /\ style \in ReuseStyles
  /\ display_value = StrValue(<<>>)
  /\ formatter = [options |-> DefaultFormat, out |-> <<>>]
  /\ buffer = new_set_style_buffer
  /\ set_style_str = <<>>
  /\ len = 0
  /\ stored = 0
  /\ fmt_pc = "set_style"
  /\ fmt_result = None
  /\ panicked = FALSE
  /\ failed = FALSE

NextReuse ==
  \/ SetStyle
  \/ \E st \in ReuseStyles : SetStyleAgain(st)

SpecReuse == InitReuse /\ [][NextReuse]_vars

\* SpecStream: NumThreads threads call write on one StyledStream made by
\* from_writer, MaxWrites times in all; the writer takes bytes, fails or panics.
InitStreamCalls ==
  /\ InitProgram
  /\ InitOrdering("total")
  /\ InitEnvironment({}, {None}, {None})
  /\ watch = {}
  /\ InitFormatting
  /\ InitStream

NextStream == \E t \in Threads : StreamStep(t)

SpecStream == InitStreamCalls /\ [][NextStream]_vars

(***************************************************************************)
(* Properties.                                                             *)
(***************************************************************************)
\* The decision table of use_color: the mode set last (none counts as Auto),
\* the value of NO_COLOR and the outcome of the probe.
UseColorTable(set, var, outcome) ==
  CASE set = Some(Always) -> TRUE
    [] set = Some(Never) -> FALSE
    [] OTHER -> (var = None \/ var = Some(<<>>)) /\ outcome # None

\* C1: in a fixed environment every use_color call of a single thread - in
\* particular the first one on a fresh instance, after an optional
\* set_color_mode(m) - returns true exactly when m = Always, or when m is
\* Auto or was never set, NO_COLOR is unset or empty and the probe returns a
\* width; it returns false in every other case.
C1_DecisionTable ==
  \A t \in AllThreads :
    pc[t] = "uc_return" =>
      UseColorResult(t) =
        UseColorTable(last_set[self[t]], no_color_var, terminal[self[t]])

\* C1, its case: the first use_color on an instance on which no mode was set,
\* on a terminal with NO_COLOR set to "0", returns false.
C1_Witness ==
  \E t \in AllThreads :
    /\ pc[t] = "uc_return"
    /\ last_set[self[t]] = None
    /\ first_use[self[t]] = None
    /\ no_color_var = Some(<<"0">>)
    /\ terminal[self[t]] # None
    /\ ~UseColorResult(t)

\* C2: in a single-threaded sequence of operations, a use_color call whose
\* most recent set_color_mode had argument Never returns false and one whose
\* most recent set_color_mode had argument Always returns true, whatever
\* NO_COLOR, the probe and an earlier automatic resolution said.
C2_OverrideWins ==
  \A t \in AllThreads :
    /\ pc[t] = "uc_return" /\ last_set[self[t]] = Some(Never)
         => ~UseColorResult(t)
    /\ pc[t] = "uc_return" /\ last_set[self[t]] = Some(Always)
         => UseColorResult(t)

\* C2, its case: the instance had resolved automatically to true, on a
\* terminal without NO_COLOR; set_color_mode(Never) followed and use_color
\* returns false.
C2_Witness ==
  \E t \in AllThreads :
    /\ pc[t] = "uc_return"
    /\ last_set[self[t]] = Some(Never)
    /\ displaced[self[t]] = Some(TRUE)
    /\ no_color_var = None
    /\ terminal[self[t]] # None
    /\ ~UseColorResult(t)

\* C3: once set_color_mode(m), m Never or Always, has returned, every
\* use_color call that begins afterwards and returns before the next
\* set_color_mode returns (m = Always), in every interleaving.
C3_OverrideWinsConcurrently ==
  \A t \in AllThreads :
    (pc[t] = "uc_return" /\ since_set[t]
       /\ last_set[self[t]] \in {Some(Never), Some(Always)})
      => (UseColorResult(t) <=> last_set[self[t]] = Some(Always))

\* C4: single-threaded memoization: with no set_color_mode in between, every
\* use_color call returns what the first one returned, every line_width call
\* returns what the first one returned, and the probe is invoked at most once.
C4_Memoization ==
  /\ \A t \in AllThreads :
       /\ pc[t] = "uc_return" /\ since_set[t] /\ first_use[self[t]] # None
            => UseColorResult(t) \in first_use[self[t]]
       /\ pc[t] = "lw_return" /\ first_width[self[t]] # None
            => LineWidthResult(t) \in first_width[self[t]]
  /\ \A s \in Streams : Len(probe_log[s]) <= 1

\* C4, its case: a repeated line_width call returns the first call's width
\* after the one probe, although the terminal reports something else by now,
\* and use_color has returned before.
C4_Witness ==
  \E t \in AllThreads :
    /\ pc[t] = "lw_return"
    /\ first_width[self[t]] = Some(LineWidthResult(t))
    /\ first_use[self[t]] # None
    /\ Len(probe_log[self[t]]) = 1
    /\ terminal[self[t]] # probe_log[self[t]][1]

\* C5: once a use_color call has resolved the mode automatically, every
\* use_color call that begins afterwards returns the resolved value, unless
\* set_color_mode is called, whatever happens to NO_COLOR and the terminal
\* and in every interleaving.
C5_ResolutionIsStable ==
  \A t \in AllThreads :
    (pc[t] = "uc_return" /\ since_set[t] /\ seen_auto[t] # None)
      => UseColorResult(t) \in seen_auto[t]

\* The width the claims expect of line_width for an outcome of the probe.
ExpectedLineWidth(outcome) ==
  IF outcome = None THEN 80 ELSE CHOOSE width \in outcome : TRUE

\* C6: line_width returns the width the probe reports, and 80 when the probe
\* reports none, whatever NO_COLOR and the colour mode are.
C6_LineWidth ==
  \A t \in AllThreads :
    pc[t] = "lw_return" => LineWidthResult(t) = ExpectedLineWidth(terminal[self[t]])

\* C6, its case: the widest terminal, with NO_COLOR set and the mode Never.
C6_Witness ==
  \E t \in AllThreads :
    /\ pc[t] = "lw_return"
    /\ terminal[self[t]] = Some(U16_MAX)
    /\ no_color_var = Some(<<"1">>)
    /\ raw_color_mode[self[t]] = Never
    /\ LineWidthResult(t) = U16_MAX

\* C7: line_width returns a positive integer for every outcome of the probe.
C7_LineWidthPositive ==
  \A t \in AllThreads : pc[t] = "lw_return" => LineWidthResult(t) >= 1

\* C8: no torn state: every use_color call returns with a resolved mode
\* (Never or Always), raw_color_mode is one of the three discriminants,
\* raw_line_width is UNKNOWN, NONE or a u16 width, ENV_NO_COLOR is -1, 0 or 1.
C8_NoTornState ==
  /\ \A s \in Streams :
       /\ raw_color_mode[s] \in {0, 1, 2}
       /\ \/ raw_line_width[s] \in {-2, -1}
          \/ raw_line_width[s] \in 0 .. 65535
  /\ ENV_NO_COLOR \in {-1, 0, 1}
  /\ \A t \in AllThreads :
       pc[t] = "uc_return" => color_mode[t] \in {Never, Always}

\* C8, its case: before any override two racing use_color calls have both
\* resolved and return, one true and one false.
C8_Witness ==
  \E t, u \in AllThreads :
    /\ pc[t] = "uc_return" /\ pc[u] = "uc_return"
    /\ self[t] = self[u]
    /\ last_set[self[t]] = None
    /\ UseColorResult(t) /\ ~UseColorResult(u)

\* C9 as claimed: the probe is invoked at most once per instance, in every
\* interleaving.
C9_ProbedAtMostOnce ==
  \A s \in Streams : Len(probe_log[s]) <= 1

\* C9: the probe is invoked at most once per instance unless two calls race
\* on the unknown width (both load UNKNOWN before either stores), and the
\* cached width is always the outcome of an invocation: of the only one when
\* there was no race.
C9_ProbedOnceUnlessRaced ==
  \A s \in Streams :
    /\ ~raced[s] => Len(probe_log[s]) <= 1
    /\ raw_line_width[s] # RAW_LINE_WIDTH_UNKNOWN =>
         \E i \in 1 .. Len(probe_log[s]) :
           raw_line_width[s] = IF probe_log[s][i] = None
                               THEN -1
                               ELSE CHOOSE width \in probe_log[s][i] : TRUE

\* C9, its case: the one probe's outcome stays cached and is returned by a
\* later call although the terminal reports something else by now.
C9_Witness ==
  \E t \in AllThreads :
    /\ pc[t] = "lw_return"
    /\ ~raced[self[t]]
    /\ Len(probe_log[self[t]]) = 1
    /\ probe_log[self[t]][1] = Some(132)
    /\ terminal[self[t]] = None
    /\ LineWidthResult(t) = 132

\* C10 as claimed: however many threads race, the probe is invoked at most
\* twice.
C10_AtMostOneExtraProbe ==
  \A s \in Streams : Len(probe_log[s]) <= 2

\* C10: when k threads race on the first calls of an instance the probe is
\* invoked at most k times, once by each thread.
C10_AtMostOneProbePerThread ==
  \A s \in Streams : Len(probe_log[s]) <= NumRacers

\* C10, its case: every racer has invoked the probe.
C10_Witness ==
  /\ Len(probe_log[STDOUT_INFO]) = NumRacers
  /\ \A t \in Racers : pc[t] = "lw_store"

\* C11 as claimed: the NO_COLOR variable is read at most once per process, in
\* every interleaving of use_color calls on both instances.
C11_ReadAtMostOnce == Len(env_log) <= 1

\* C11: the variable is read at most once per process unless two calls race
\* on the unknown flag (both load ENV_NO_COLOR as unknown before either
\* stores), and never more than once by each thread; without such a race
\* every use_color on either instance resolves with the value that was read
\* first, whatever the variable is by now.
C11_ReadOnceUnlessRaced ==
  /\ Len(env_log) <= NumThreads
  /\ ~env_raced => Len(env_log) <= 1
  /\ ~env_raced =>
       \A t \in AllThreads :
         pc[t] = "uc_return" =>
           /\ Len(env_log) = 1
           /\ UseColorResult(t) = UseColorTable(None, env_log[1], terminal[self[t]])

\* C11, its case: STDOUT_INFO has resolved with the variable unset, the
\* variable was then set to "1", and use_color on STDERR_INFO, a terminal,
\* returns true without another read.
C11_Witness ==
  \E t \in AllThreads :
    /\ pc[t] = "uc_return"
    /\ self[t] = STDERR_INFO
    /\ raw_color_mode[STDOUT_INFO] # Auto
    /\ ~env_raced
    /\ env_log = <<None>>
    /\ no_color_var = Some(<<"1">>)
    /\ UseColorResult(t)

\* The store of raw_color_mode that thread t has observed last on stream s.
ObservedMode(t, s) == mo[RawColorModeLoc(s)][view[t][RawColorModeLoc(s)]]

\* C12: a thread that observes a colour mode resolved by use_color also
\* observes every store that the resolving thread had made or observed when
\* it published the mode: the cached line width and the cached NO_COLOR flag.
C12_ResolutionIsPublished ==
  \A t \in AllThreads, s \in Streams :
    (ObservedMode(t, s).by = "uc_store" /\ ObservedMode(t, s).value # Auto)
      => \A x \in Locs : view[t][x] >= ObservedMode(t, s).before[x]

(***************************************************************************)
(* Properties of set_style.  What the claims expect is written down here   *)
(* from the numbers of the codes, not from the tables of the source.       *)
(***************************************************************************)
\* The colours in the order of the declaration: Default, the eight normal
\* colours, the eight bright colours.
ColorsInOrder ==
  <<"Default", "Black", "Red", "Green", "Yellow", "Blue", "Magena", "Cyan",
    "LightGray", "DarkGray", "LightRed", "LightGreen", "LightYellow", "LightBlue",
    "LightMagenta", "LightCyan", "White">>
Ordinal(c) == CHOOSE i \in 1 .. Len(ColorsInOrder) : ColorsInOrder[i] = c
NormalColors == {ColorsInOrder[i] : i \in 2 .. 9}
BrightColors == {ColorsInOrder[i] : i \in 10 .. 17}

\* The numbers the claims give: 39, 30..37, 90..97 and 49, 40..47, 100..107.
ForegroundNumber(c) ==
  IF c = "Default" THEN 39
  ELSE IF c \in NormalColors THEN 28 + Ordinal(c) ELSE 80 + Ordinal(c)
BackgroundNumber(c) ==
  IF c = "Default" THEN 49
  ELSE IF c \in NormalColors THEN 38 + Ordinal(c) ELSE 90 + Ordinal(c)

\* The number that a string of decimal digits denotes.
RECURSIVE ParseDecimal(_)
ParseDecimal(str) ==
  IF Len(str) = 0 THEN 0
  ELSE 10 * ParseDecimal(SubSeq(str, 1, Len(str) - 1)) + (str[Len(str)] - 48)

\* The parts a style emits, in the order the claims give.
ExpectedParts(st) ==
  (IF st.foreground_color # "Default"
   THEN <<Decimal(ForegroundNumber(st.foreground_color))>> ELSE <<>>) \o
  (IF st.background_color # "Default"
   THEN <<Decimal(BackgroundNumber(st.background_color))>> ELSE <<>>) \o
  (IF st.bold THEN << <<49>> >> ELSE <<>>) \o
  (IF st.underlined THEN << <<52>> >> ELSE <<>>) \o
  (IF st.blinking THEN << <<53>> >> ELSE <<>>)

\* The parts joined by ';'.
RECURSIVE Joined(_)
Joined(parts) ==
  IF Len(parts) = 0 THEN <<>>
  ELSE IF Len(parts) = 1 THEN parts[1]
  ELSE parts[1] \o <<59>> \o Joined(Tail(parts))

\* ESC[ parts m.
Wrapped(parts) == <<27, 91>> \o Joined(parts) \o <<109>>

\* The number of non-default fields of a style.
NonDefaultFields(st) == Len(ExpectedParts(st))

\* The number of occurrences of a byte in a string.
Occurrences(str, ch) == Cardinality({i \in 1 .. Len(str) : str[i] = ch})

BeginsWithIntroducer(str) == Len(str) >= 2 /\ str[1] = 27 /\ str[2] = 91
EndsWithM(str) == Len(str) >= 1 /\ str[Len(str)] = 109

\* C13: set_style returns the empty string exactly when the style equals
\* Style::default(); for the default style no byte is produced (never ESC[m),
\* and for every other style the result is non-empty.
C13_EmptyIffDefault ==
  fmt_pc = "returned" =>
    /\ ~panicked
    /\ (set_style_str = <<>>) <=> (style = StyleDefault)
    /\ style = StyleDefault => stored = 0 /\ buffer = new_set_style_buffer
    /\ set_style_str # <<27, 91, 109>>

\* C13, its case: set_style of the default style has returned, and nothing
\* was stored in the buffer.
C13_Witness ==
  /\ fmt_pc = "returned"
  /\ style = StyleDefault
  /\ set_style_str = <<>>
  /\ stored = 0

\* C14 as claimed: for every style, the default style too, set_style returns
\* ESC[ followed by the ';'-joined parts followed by 'm'.
C14_AlwaysWrapped ==
  fmt_pc = "returned" => set_style_str = Wrapped(ExpectedParts(style))

\* C14: for every style that is not the default style set_style returns
\* exactly ESC[, the ';'-joined parts and 'm', the parts being, in this order
\* and only if non-default, the foreground code, the background code, '1' for
\* bold, '4' for underlined, '5' for blinking; for the default style, which
\* emits no part, it returns the empty string.
C14_ExactSequence ==
  fmt_pc = "returned" =>
    set_style_str = IF style = StyleDefault
                    THEN <<>>
                    ELSE Wrapped(ExpectedParts(style))

\* C14, its case: Cyan on DarkGray, bold, underlined and blinking gives
\* ESC[36;100;1;4;5m.
C14_Witness ==
  /\ fmt_pc = "returned"
  /\ style = [foreground_color |-> "Cyan", background_color |-> "DarkGray",
              bold |-> TRUE, underlined |-> TRUE, blinking |-> TRUE]
  /\ set_style_str = <<27, 91, 51, 54, 59, 49, 48, 48, 59, 49, 59, 52, 59, 53, 109>>

\* C15: for every style with exactly one non-default field set_style returns
\* ESC[, the code of that field and 'm', with no ';' in it.
C15_SingleField ==
  (fmt_pc = "returned" /\ NonDefaultFields(style) = 1) =>
    /\ set_style_str = <<27, 91>> \o ExpectedParts(style)[1] \o <<109>>
    /\ Occurrences(set_style_str, 59) = 0

\* C15, its case: only the background colour is set, to LightMagenta, and
\* the result is ESC[105m.
C15_Witness ==
  /\ fmt_pc = "returned"
  /\ style = [StyleDefault EXCEPT !.background_color = "LightMagenta"]
  /\ set_style_str = <<27, 91, 49, 48, 53, 109>>

\* C16 as claimed: for N non-default fields, N in 0..5, the result contains
\* exactly N-1 separators, and begins with ESC[ and ends with 'm' iff N > 0.
C16_SeparatorsAlways ==
  fmt_pc = "returned" =>
    /\ Occurrences(set_style_str, 59) = NonDefaultFields(style) - 1
    /\ (BeginsWithIntroducer(set_style_str) /\ EndsWithM(set_style_str))
         <=> NonDefaultFields(style) > 0

\* C16: for N non-default fields the result contains exactly N-1 separators
\* if N is in 1..5 and none if N = 0 (the result is then empty), and it begins
\* with ESC[ and ends with 'm' iff N > 0.
C16_Separators ==
  fmt_pc = "returned" =>
    /\ NonDefaultFields(style) >= 1 =>
         Occurrences(set_style_str, 59) = NonDefaultFields(style) - 1
    /\ NonDefaultFields(style) = 0 => set_style_str = <<>>
    /\ (BeginsWithIntroducer(set_style_str) /\ EndsWithM(set_style_str))
         <=> NonDefaultFields(style) > 0

\* C16, its case: all five fields are set and the result has four separators.
C16_Witness ==
  /\ fmt_pc = "returned"
  /\ NonDefaultFields(style) = 5
  /\ Occurrences(set_style_str, 59) = 4
  /\ BeginsWithIntroducer(set_style_str)
  /\ EndsWithM(set_style_str)

\* C17: for every style set_style stores at most 15 bytes and no push panics
\* on the buffer's bound; 15 is attained; the returned string is as long as
\* the number of bytes stored, none of them left uninitialized.
C17_BufferBound ==
  fmt_pc = "returned" =>
    /\ ~panicked
    /\ stored <= 15
    /\ Len(set_style_str) = stored
    /\ \A i \in 1 .. Len(set_style_str) : set_style_str[i] # Uninit

\* C17, its case: a two-digit foreground code, a three-digit background code
\* and all three attributes fill the 15 bytes.
C17_Witness ==
  /\ fmt_pc = "returned"
  /\ ~panicked
  /\ stored = 15
  /\ Len(set_style_str) = 15
  /\ style.background_color \in BrightColors
  /\ style.bold /\ style.underlined /\ style.blinking

\* C18: the 17 colours have pairwise distinct foreground codes and pairwise
\* distinct background codes; the foreground codes are 39, 30..37 and 90..97,
\* the background codes 49, 40..47 and 100..107; the attribute codes are 1, 4
\* and 5, and the reset sequence is ESC[0m.
C18_CodeTables ==
  fmt_pc = "returned" =>
    /\ ParseDecimal(foreground_code(style.foreground_color))
         = ForegroundNumber(style.foreground_color)
    /\ ParseDecimal(background_code(style.background_color))
         = BackgroundNumber(style.background_color)
    /\ \A c \in Color \ {style.foreground_color} :
         foreground_code(c) # foreground_code(style.foreground_color)
    /\ \A c \in Color \ {style.background_color} :
         background_code(c) # background_code(style.background_color)
    /\ Cardinality(Color) = 17
    /\ style = [StyleDefault EXCEPT !.bold = TRUE]
         => set_style_str = <<27, 91>> \o Decimal(1) \o <<109>>
    /\ style = [StyleDefault EXCEPT !.underlined = TRUE]
         => set_style_str = <<27, 91>> \o Decimal(4) \o <<109>>
    /\ style = [StyleDefault EXCEPT !.blinking = TRUE]
         => set_style_str = <<27, 91>> \o Decimal(5) \o <<109>>
    /\ RESET_STYLE = <<27, 91>> \o Decimal(0) \o <<109>>

\* C18, its case: White on White, the last code of either table.
C18_Witness ==
  /\ fmt_pc = "returned"
  /\ style.foreground_color = "White"
  /\ style.background_color = "White"
  /\ ParseDecimal(foreground_code(style.foreground_color)) = 97
  /\ ParseDecimal(background_code(style.background_color)) = 107

\* C19 as claimed: the background code is the foreground code plus 10 for the
\* eight normal colours, but not for Default and not for the bright colours.
C19_OffsetWithExceptions ==
  fmt_pc = "returned" =>
    LET c == style.foreground_color
        plus10 == ParseDecimal(background_code(c)) = ParseDecimal(foreground_code(c)) + 10
    IN /\ c \in NormalColors => plus10
       /\ c = "Default" => ~plus10
       /\ c \in BrightColors => ~plus10

\* C19: the background code is the foreground code plus 10 for every one of
\* the 17 colours: for Default (39 and 49) and for the bright colours (90..97
\* and 100..107) as for the normal ones.  A bright background code differs in
\* having three digits.
C19_OffsetEverywhere ==
  fmt_pc = "returned" =>
    LET c == style.foreground_color
    IN /\ ParseDecimal(background_code(c)) = ParseDecimal(foreground_code(c)) + 10
       /\ Len(background_code(c)) = IF c \in BrightColors THEN 3 ELSE 2
       /\ Len(foreground_code(c)) = 2

\* C19, its case: a bright colour, DarkGray, with the codes 90 and 100.
C19_Witness ==
  /\ fmt_pc = "returned"
  /\ style.foreground_color = "DarkGray"
  /\ ParseDecimal(foreground_code(style.foreground_color)) = 90
  /\ ParseDecimal(background_code(style.foreground_color)) = 100

(***************************************************************************)
(* Properties of StyledDisplay::fmt.                                       *)
(***************************************************************************)
\* C20: when all writes succeed fmt returns Ok and has written, in this order,
\* the set_style sequence of the style, the value formatted by the caller's
\* format specification (which applies to the value only), and ESC[0m; for
\* the default style it has written the formatted value alone.
C20_StyledOutput ==
  (fmt_pc = "done" /\ ~failed) =>
    /\ fmt_result = Some("Ok")
    /\ formatter.out =
         IF style = StyleDefault
         THEN FormattedValue(display_value, formatter.options)
         ELSE Wrapped(ExpectedParts(style))
                \o FormattedValue(display_value, formatter.options)
                \o <<27, 91, 48, 109>>

\* C20, its case: "foo" in yellow under the format specification {:_>5} is
\* written as ESC[33m__fooESC[0m.
C20_Witness ==
  /\ fmt_pc = "done"
  /\ ~failed
  /\ style = [StyleDefault EXCEPT !.foreground_color = "Yellow"]
  /\ display_value = StrValue(<<102, 111, 111>>)
  /\ formatter.options.width = 5
  /\ formatter.out = <<27, 91, 51, 51, 109, 95, 95, 102, 111, 111, 27, 91, 48, 109>>

(***************************************************************************)
(* Further properties of the stream capability cache.                      *)
(***************************************************************************)
\* C21: agreement: without set_color_mode, without a reset of ENV_NO_COLOR and
\* in a fixed environment, all use_color calls on an instance, sequential or
\* concurrent, return the same boolean, and all line_width calls return the
\* same width.
C21_Agreement ==
  \A t \in AllThreads :
    /\ pc[t] = "uc_return" =>
          /\ first_use[self[t]] # None => UseColorResult(t) \in first_use[self[t]]
          /\ \A u \in AllThreads :
               (pc[u] = "uc_return" /\ self[u] = self[t])
                 => UseColorResult(u) = UseColorResult(t)
    /\ pc[t] = "lw_return" =>
          /\ first_width[self[t]] # None => LineWidthResult(t) \in first_width[self[t]]
          /\ \A u \in AllThreads :
               (pc[u] = "lw_return" /\ self[u] = self[t])
                 => LineWidthResult(u) = LineWidthResult(t)

\* C21, its case: after a first use_color and a first line_width have returned
\* true and 132, two further use_color calls return together, and a third
\* thread is still in the probe it raced into.
C21_Witness ==
  \E t, u \in AllThreads :
    /\ t # u
    /\ pc[t] = "uc_return" /\ pc[u] = "uc_return"
    /\ first_use[STDOUT_INFO] = Some(TRUE)
    /\ first_width[STDOUT_INFO] = Some(132)
    /\ UseColorResult(t) /\ UseColorResult(u)
    /\ \E v \in AllThreads : pc[v] = "lw_store"

\* The boolean an automatic resolution computes from what is cached: the
\* value of NO_COLOR that was read first and the first outcome of the probe.
ResolutionFromCache(reads, probes) ==
  /\ Len(reads) >= 1
  /\ (reads[1] = None \/ reads[1] = Some(<<>>))
  /\ Len(probes) >= 1
  /\ probes[1] # None

\* C22: set_color_mode(Auto) re-arms the lazy resolution (one thread, no
\* reset): it leaves raw_color_mode Auto, on a fresh instance as on a resolved
\* one; the next use_color resolves again and caches the result, a mode of
\* Never or Always; the variable is read and the probe invoked at most once
\* over all resolutions, so the result is the one computed from the cached
\* flag and the cached width, the same as the automatic resolution that the
\* override displaced, whatever the environment is by now, and the same on an
\* instance on which no mode was set.
C22_AutoRearms ==
  /\ Len(env_log) <= 1
  /\ \A s \in Streams :
       /\ Len(probe_log[s]) <= 1
       /\ (last_set[s] \in {None, Some(Auto)} /\ auto_result[s] = None)
            => raw_color_mode[s] = Auto
  /\ \A t \in AllThreads :
       (pc[t] = "uc_return" /\ last_set[self[t]] \in {None, Some(Auto)}) =>
         /\ raw_color_mode[self[t]] = color_mode[t]
         /\ color_mode[t] \in {Never, Always}
         /\ auto_result[self[t]] # None
         /\ UseColorResult(t) = ResolutionFromCache(env_log, probe_log[self[t]])
         /\ (last_set[self[t]] = Some(Auto) /\ displaced[self[t]] # None)
              => UseColorResult(t) \in displaced[self[t]]

\* C22, its case: the instance had resolved automatically to true, on a
\* terminal without NO_COLOR; NO_COLOR was then set to "1" and the terminal
\* went away; after set_color_mode(Auto) the first use_color has resolved again
\* and returns true, after one read of the variable and one probe.
C22_Witness ==
  \E t \in AllThreads :
    /\ pc[t] = "uc_return"
    /\ last_set[self[t]] = Some(Auto)
    /\ displaced[self[t]] = Some(TRUE)
    /\ first_use[self[t]] = None
    /\ no_color_var = Some(<<"1">>)
    /\ terminal[self[t]] = None
    /\ Len(env_log) = 1 /\ Len(probe_log[self[t]]) = 1
    /\ UseColorResult(t)

\* C23: a use_color call that loads Never or Always skips the lazy path: from
\* its load it goes straight to its return, with the loaded mode as its
\* result, and neither of its two steps reads the flag or the variable,
\* invokes the probe, or changes raw_color_mode, raw_line_width or
\* ENV_NO_COLOR.
C23_LazyPathSkipped ==
  [][\A t \in AllThreads :
       /\ (pc[t] = "idle" /\ op'[t] = "use_color" /\ color_mode'[t] # Auto) =>
            /\ pc'[t] = "uc_return"
            /\ color_mode'[t] = raw_color_mode[self'[t]]
            /\ UNCHANGED <<raw_color_mode, raw_line_width, ENV_NO_COLOR>>
            /\ UNCHANGED <<env_log, probe_log, local_env_no_color, local_raw_line_width>>
       /\ (pc[t] = "uc_return" /\ pc'[t] # "uc_return") =>
            /\ pc'[t] = "idle"
            /\ UNCHANGED <<raw_color_mode, raw_line_width, ENV_NO_COLOR>>
            /\ UNCHANGED <<env_log, probe_log>>]_vars

\* C23, its case: use_color has loaded Always on an instance on which nothing
\* was resolved yet: the flag and the width are still unknown, the variable
\* was not read and the probe not invoked, on a terminal with NO_COLOR unset.
C23_Witness ==
  \E t \in AllThreads :
    /\ pc[t] = "uc_return"
    /\ last_set[self[t]] = Some(Always)
    /\ UseColorResult(t)
    /\ raw_color_mode[self[t]] = Always
    /\ raw_line_width[self[t]] = RAW_LINE_WIDTH_UNKNOWN
    /\ ENV_NO_COLOR = ENV_NO_COLOR_UNKNOWN
    /\ env_log = <<>> /\ probe_log[self[t]] = <<>>
    /\ no_color_var = None /\ terminal[self[t]] # None

\* C24: use_color and line_width do not depend on their order (one thread,
\* mode Auto, fixed environment): line_width returns the probe's width, or 80,
\* whether or not use_color has returned before, after exactly one probe;
\* use_color returns what the decision table gives whether or not line_width
\* has returned before; and while NO_COLOR is non-empty and line_width was not
\* called, use_color resolves to false without a probe and leaves
\* raw_line_width UNKNOWN.
C24_OrderIndependence ==
  \A t \in AllThreads :
    /\ pc[t] = "lw_return" =>
          /\ LineWidthResult(t) = ExpectedLineWidth(terminal[self[t]])
          /\ probe_log[self[t]] = <<terminal[self[t]]>>
    /\ pc[t] = "uc_return" =>
          UseColorResult(t) = UseColorTable(None, no_color_var, terminal[self[t]])
    /\ (no_color_var \notin {None, Some(<<>>)} /\ first_width[self[t]] = None
          /\ \A u \in AllThreads : op[u] # "line_width") =>
          /\ probe_log[self[t]] = <<>>
          /\ raw_line_width[self[t]] = RAW_LINE_WIDTH_UNKNOWN
          /\ pc[t] = "uc_return" => raw_color_mode[self[t]] = Never

\* C24, its case: with NO_COLOR set to "1" use_color had returned false
\* without a probe; the line_width that followed has probed and returns the
\* terminal's width, 132.
C24_Witness ==
  \E t \in AllThreads :
    /\ pc[t] = "lw_return"
    /\ no_color_var = Some(<<"1">>)
    /\ first_use[self[t]] = Some(FALSE)
    /\ first_width[self[t]] = None
    /\ raw_color_mode[self[t]] = Never
    /\ probe_log[self[t]] = <<Some(132)>>
    /\ LineWidthResult(t) = 132

\* C25: the line width has no override and does not depend on the colour
\* mode (one thread): every line_width call returns what the first one
\* returned, whatever set_color_mode and use_color calls lie between them; no
\* step changes a line width that is cached; a set_color_mode changes
\* raw_color_mode only; and no step of a line_width call changes
\* raw_color_mode or ENV_NO_COLOR.
C25_WidthHasNoOverride ==
  /\ [](\A t \in AllThreads :
         (pc[t] = "lw_return" /\ first_width[self[t]] # None)
           => LineWidthResult(t) \in first_width[self[t]])
  /\ [][/\ \A s \in Streams :
            raw_line_width[s] # RAW_LINE_WIDTH_UNKNOWN
              => raw_line_width'[s] = raw_line_width[s]
        /\ (pc' = pc /\ raw_color_mode' # raw_color_mode)
              => UNCHANGED <<raw_line_width, ENV_NO_COLOR>>
        /\ \A t \in AllThreads :
             (pc'[t] # pc[t] /\ (op[t] = "line_width" \/ op'[t] = "line_width"))
               => UNCHANGED <<raw_color_mode, ENV_NO_COLOR>>]_vars

\* C25, its case: line_width returns the width of the first call, 132, after
\* use_color had resolved to true and set_color_mode(Never) had followed,
\* although the stream is no terminal any more.
C25_Witness ==
  \E t \in AllThreads :
    /\ pc[t] = "lw_return"
    /\ first_width[self[t]] = Some(132)
    /\ LineWidthResult(t) = 132
    /\ displaced[self[t]] = Some(TRUE)
    /\ last_set[self[t]] = Some(Never)
    /\ raw_color_mode[self[t]] = Never
    /\ terminal[self[t]] = None

\* C26: once raw_line_width of an instance holds a resolved value, NONE or a
\* width, no later step changes it, in every interleaving of use_color and
\* line_width calls of several threads, also when the terminal changes between
\* two racing probes.
C26_CachedWidthIsStable ==
  [][\A s \in Streams :
       raw_line_width[s] # RAW_LINE_WIDTH_UNKNOWN
         => raw_line_width'[s] = raw_line_width[s]]_vars

\* The instance that is not s.
OtherStream(s) == IF s = STDOUT_INFO THEN STDERR_INFO ELSE STDOUT_INFO

\* C27: the two instances are independent but for the shared flag: no step
\* of a use_color or line_width call on one instance and no set_color_mode on
\* it changes raw_color_mode or raw_line_width of the other instance; so, in a
\* fixed environment, what use_color and line_width return on an instance is
\* given by its own override and its own terminal, whatever was set or
\* resolved on the other.
C27_InstancesIndependent ==
  /\ [](\A t \in AllThreads :
         /\ pc[t] = "uc_return" =>
               UseColorResult(t) =
                 UseColorTable(last_set[self[t]], no_color_var, terminal[self[t]])
         /\ pc[t] = "lw_return" =>
               LineWidthResult(t) = ExpectedLineWidth(terminal[self[t]]))
  /\ [][/\ \A t \in AllThreads :
            pc'[t] # pc[t] =>
              LET o == OtherStream(IF pc[t] = "idle" THEN self'[t] ELSE self[t])
              IN /\ raw_color_mode'[o] = raw_color_mode[o]
                 /\ raw_line_width'[o] = raw_line_width[o]
        /\ \A s \in Streams :
            (pc' = pc /\ (raw_color_mode'[s] # raw_color_mode[s]
                            \/ last_set'[s] # last_set[s])) =>
              /\ raw_color_mode'[OtherStream(s)] = raw_color_mode[OtherStream(s)]
              /\ raw_line_width' = raw_line_width]_vars

\* C27, its case: STDOUT_INFO, a terminal of width 132, was set to Never and
\* its width is cached; use_color on STDERR_INFO, a terminal of width 1 on
\* which no mode was set, has resolved to true and cached its own width.
C27_Witness ==
  \E t \in AllThreads :
    /\ pc[t] = "uc_return"
    /\ self[t] = STDERR_INFO
    /\ last_set[STDERR_INFO] = None
    /\ UseColorResult(t)
    /\ raw_color_mode[STDERR_INFO] = Always
    /\ raw_line_width[STDERR_INFO] = 1
    /\ last_set[STDOUT_INFO] = Some(Never)
    /\ raw_color_mode[STDOUT_INFO] = Never
    /\ raw_line_width[STDOUT_INFO] = 132

\* C28: without set_color_mode and without a reset, in every reachable state
\* in which raw_color_mode of an instance is Always its raw_line_width holds a
\* width (>= 0) and ENV_NO_COLOR is cached as 0: an automatic decision to use
\* colour is backed by a cached terminal width.
C28_AlwaysIsBacked ==
  \A s \in Streams :
    raw_color_mode[s] = Always
      => (raw_line_width[s] >= 0 /\ ENV_NO_COLOR = BoolAsI8(FALSE))

(***************************************************************************)
(* Further properties of set_style.                                        *)
(***************************************************************************)
\* The bytes of a buffer from index n + 1 on.
Leftover(buf, n) == SubSeq(buf, n + 1, Len(buf))

\* C29: set_style is a pure function of the style: in every sequence of calls
\* that use one buffer again, each call returns what it returns for its style
\* on a new buffer, the sequence the style's fields give, whatever bytes
\* earlier encodings have left in the buffer; so calls with equal styles
\* return equal strings.  No call panics, and a call writes only the bytes
\* of its result.
C29_PureFunction ==
  /\ [](fmt_pc = "returned" =>
         /\ ~panicked
         /\ set_style_str = ReturnedStr(set_style(style, new_set_style_buffer))
         /\ set_style_str = IF style = StyleDefault
                            THEN <<>>
                            ELSE Wrapped(ExpectedParts(style))
         /\ set_style_str = SubSeq(buffer, 1, len))
  /\ [][fmt_pc = "set_style" =>
          Leftover(buffer', len') = Leftover(buffer, len')]_vars

\* C29, its case: after an encoding of 15 bytes the same buffer was used for
\* bold alone: the call returns ESC[1m, and the buffer still holds the 11
\* bytes that the longer encoding left behind it.
C29_Witness ==
  /\ fmt_pc = "returned"
  /\ style = [StyleDefault EXCEPT !.bold = TRUE]
  /\ set_style_str = <<27, 91, 49, 109>>
  /\ Leftover(buffer, 4) = <<59, 49, 48, 55, 59, 49, 59, 52, 59, 53, 109>>

\* The parts of a string between its separators ';'.
RECURSIVE SplitParts(_)
SplitParts(str) ==
  IF \A i \in 1 .. Len(str) : str[i] # 59
  THEN <<str>>
  ELSE LET k == CHOOSE i \in 1 .. Len(str) :
                  str[i] = 59 /\ \A j \in 1 .. i - 1 : str[j] # 59
       IN <<SubSeq(str, 1, k - 1)>> \o SplitParts(SubSeq(str, k + 1, Len(str)))

\* The style read back from a control sequence: the numbers between ESC[ and
\* 'm', each taken for what its range says: 30..37 and 90..97 a foreground
\* colour, 40..47 and 100..107 a background colour, 1, 4 and 5 an attribute.
Decode(str) ==
  LET parts == IF str = <<>> THEN <<>> ELSE SplitParts(SubSeq(str, 3, Len(str) - 1))
      codes == {ParseDecimal(parts[i]) : i \in 1 .. Len(parts)}
      fg == {c \in Color \ {"Default"} : ForegroundNumber(c) \in codes}
      bg == {c \in Color \ {"Default"} : BackgroundNumber(c) \in codes}
  IN [foreground_color |-> IF fg = {} THEN "Default" ELSE CHOOSE c \in fg : TRUE,
      background_color |-> IF bg = {} THEN "Default" ELSE CHOOSE c \in bg : TRUE,
      bold |-> 1 \in codes, underlined |-> 4 \in codes, blinking |-> 5 \in codes]

\* The numbers of the codes in the tables of the source.
ForegroundCodes == {ParseDecimal(foreground_code(c)) : c \in Color}
BackgroundCodes == {ParseDecimal(background_code(c)) : c \in Color}

\* Every style with its encoding on a new buffer.
Encodings == {<<st, ReturnedStr(set_style(st, new_set_style_buffer))>> : st \in Style}

\* C30: set_style is injective: the foreground codes, the background codes
\* and the attribute codes 1, 4, 5 are pairwise disjoint, the style is
\* recovered from its encoding, and no other style has the same encoding.
C30_Injective ==
  fmt_pc = "returned" =>
    /\ ForegroundCodes \cap BackgroundCodes = {}
    /\ ForegroundCodes \cap {1, 4, 5} = {}
    /\ BackgroundCodes \cap {1, 4, 5} = {}
    /\ Decode(set_style_str) = style
    /\ \A other \in Encodings : other[2] = set_style_str => other[1] = style

\* C30, its case: Red on the default background and the default foreground
\* on Red, which differ in the field that holds the colour only, are encoded
\* as ESC[31m and ESC[41m.
C30_Witness ==
  /\ fmt_pc = "returned"
  /\ style = [StyleDefault EXCEPT !.background_color = "Red"]
  /\ set_style_str = <<27, 91, 52, 49, 109>>
  /\ <<[StyleDefault EXCEPT !.foreground_color = "Red"], <<27, 91, 51, 49, 109>> >>
       \in Encodings
  /\ Decode(set_style_str) = style

(***************************************************************************)
(* Further properties of StyledDisplay::fmt.                               *)
(***************************************************************************)
\* Whether str begins with pre.
IsPrefix(pre, str) == Len(pre) <= Len(str) /\ pre = SubSeq(str, 1, Len(pre))

Positions(c) == {i \in 1 .. Len(origin) : origin[i] = c}

\* The positions of call c are next to one another.
Contiguous(c) ==
  \A i, k \in Positions(c) : \A j \in i .. k : j \in Positions(c)

\* The bytes of the writer from the first to the last byte of call c.
Segment(c) ==
  LET P == Positions(c)
  IN IF P = {} THEN <<>>
     ELSE LET lo == CHOOSE i \in P : \A j \in P : i <= j
              hi == CHOOSE i \in P : \A j \in P : j <= i
          IN SubSeq(writer, lo, hi)

\* C32: write holds the mutex of the writer for the whole write_all.  The
\* bytes that a call has written are next to one another in the writer, with
\* no byte of another call between them; they are the beginning of the call's
\* string, and the whole string when the call has returned Ok.  A thread holds
\* the mutex exactly from lock to the drop of the guard, so a thread whose call
\* has returned, with Ok or with an error, or has unwound, does not hold it.
\* A thread that leaves lock has taken the free mutex, poisoned or not, and
\* the poison is cleared before it writes.
C32_WriteIsExclusive ==
  /\ [](/\ Len(origin) = Len(writer)
        /\ \A c \in 1 .. Len(calls) :
             /\ Contiguous(c)
             /\ IsPrefix(Segment(c), calls[c].s)
             /\ calls[c].result = Some("Ok") => Segment(c) = calls[c].s
        /\ \A t \in Threads :
             /\ mutex.holder = Some(t) <=> w_pc[t] \in Holding
             /\ w_pc[t] \in {"write_all", "drop"} => ~mutex.poison)
  /\ [][\A t \in Threads :
          /\ (w_pc[t] = "lock" /\ w_pc'[t] # "lock") =>
               /\ mutex.holder = None
               /\ mutex'.holder = Some(t)
               /\ w_pc'[t] = IF mutex.poison THEN "clear_poison" ELSE "write_all"
          /\ (w_pc[t] = "clear_poison" /\ w_pc'[t] # "clear_poison") =>
               /\ w_pc'[t] = "write_all"
               /\ ~mutex'.poison]_vars

\* C32, its case: thread 2 called write("ab") first, thread 1 called
\* write("ab") next, took the mutex before thread 2, wrote "a" and panicked in
\* the writer, which poisoned the mutex; thread 2 then took the mutex, cleared
\* the poison, wrote "ab" whole and returned Ok; its next call, write("c"),
\* returned the writer's error; now no thread holds the mutex.
C32_Witness ==
  /\ calls = << [thread |-> 2, s |-> <<97, 98>>, result |-> Some("Ok")],
                [thread |-> 1, s |-> <<97, 98>>, result |-> Some("Panic")],
                [thread |-> 2, s |-> <<99>>, result |-> Some("Err")] >>
  /\ writer = <<97, 97, 98>>
  /\ origin = <<2, 1, 1>>
  /\ w_pc[1] = "panicked"
  /\ w_pc[2] = "idle"
  /\ write_result[2] = Some("Err")
  /\ mutex = [holder |-> None, poison |-> FALSE]

====
